---- MODULE Spec2Model ----
(***************************************************************************)
(* State-machine model of the R3F character controller client:            *)
(*   - the remote-player registry kept by App (playerJoined / playerMoved *)
(*     / playerLeft / init / chat handlers),                              *)
(*   - the screen-share session manager of ConferenceScreen (peer          *)
(*     connections, ICE candidate queue, reconnect watchdog),             *)
(*   - the per-frame callback of Character (useFrame) with the Experience *)
(*     callbacks it drives.                                               *)
(* Times are milliseconds, lengths are millimetres (1 world unit = 1000), *)
(* speeds are millimetres per second.                                     *)
(***************************************************************************)
EXTENDS Integers, Sequences, FiniteSets, TLC

VARIABLES
    \* ---- App (remote registry) ----
    players,            \* useState players: identifier -> snapshot (partial record)
    chatMessages,       \* useState chatMessages: sequence of message ids
    nChat,              \* number of chat messages received so far (history)
    regEvent,           \* the socket event handled last (history)
    \* ---- the relay, and its connection to this client ----
    srvPlayers,         \* the relay's players: identifier -> snapshot
    inbox,              \* the events the relay sent to this client, not yet handled
    gone,               \* the socket ids that have disconnected (never used again)
    leftSeen,           \* the ids whose playerLeft this client has handled (history)
    broadcasterId,      \* the relay's broadcasterId (None = null)
    listening,          \* ConferenceScreen's socket listeners are registered
    broadcasters,       \* the other participants whose client has isBroadcaster set
    \* ---- ConferenceScreen (screen-share session manager) ----
    isBroadcaster,      \* useState isBroadcaster
    remoteBroadcasterId,\* useState remoteBroadcasterId (None = null)
    stream,             \* useState stream: NoStream, LocalStream, or the slot of the
                        \* connection whose remote stream it is
    videoSrc,           \* videoElement.srcObject, same values as stream
    connectionStatus,   \* useState connectionStatus
    peerConnections,    \* peerConnections.current: identifier -> slot of pcs, 0 = no entry
    iceCandidateQueue,  \* iceCandidateQueue.current: identifier -> queued candidates, <<>> = no entry
    localStreamRef,     \* localStreamRef.current is set
    capturePending,     \* startSharing is awaiting getDisplayMedia
    timer,              \* the pending watchdog timeout: None, or the broadcaster id its callback closed over
    effectDeps,         \* the dependency values the effects ran with last
    listenerVideo,      \* the videoElement the registered socket listeners closed over is set
    pcs,                \* the RTCPeerConnection objects: slot -> connection
    chain,              \* slot -> the connection's operations chain: the pending
                        \* operations, each with the continuation awaiting it
    lastCreate,         \* whether the last createPeerConnection call found a connection
                        \* registered for its target ("replaced") or not ("fresh") (history)
    nSig,               \* number of signals received so far (candidates are numbered by it)
    uncaught,           \* a rejected operation was awaited outside every try block (history)
    rendered,           \* the remoteBroadcasterId, stream and isBroadcaster of the render React committed last
    shareLog,           \* what the last startSharing / stopSharing call did: the share
                        \* message it emitted, or how it was aborted (history)
    \* ---- Character and Experience ----
    now,                \* Date.now(), ms
    delta,              \* the delta of the frame that is due, ms
    frameDue,           \* a frame is due: time has passed since the last useFrame call
    pos,                \* rigidBody.translation().z, mm
    vz,                 \* rigidBody.linvel().z, mm/s
    vy,                 \* rigidBody.linvel().y, mm/s
    animation,          \* useState animation
    isOnFloor, wasOnFloor, isLanding, jumpType, jumpCooldown,
    currentRotation, targetRotation,
    currentNavTarget,   \* Null or <<the target's z>>
    lastPosition, stuckTime, lastUpdateRef,
    landTimers,         \* the due times of the pending landing timeouts
    targetLocation,     \* Experience useState targetLocation
    isSitting, sitPose, \* Experience useState isSitting, sitPose
    pendingInteraction, \* Experience pendingInteraction.current
    lastEmit,           \* the last snapshot given to onUpdate, with its time (history)
    tickLog,            \* what the last useFrame call did, and its input (history)
    isDragging,         \* isDragging.current
    cameraOrbit,        \* cameraOrbit.current, in milliradians
    cameraPolar,        \* cameraPolar.current, in milliradians
    buttons,            \* the mouse buttons that are down (0 left, 2 right)
    nMouse              \* number of mouse moves handled so far (history)

relayVars == <<srvPlayers, inbox, gone, leftSeen, broadcasterId, listening, broadcasters>>

regVars == <<players, chatMessages, nChat, regEvent, relayVars>>

confVars == <<isBroadcaster, remoteBroadcasterId, stream, videoSrc, connectionStatus,
              peerConnections, iceCandidateQueue, localStreamRef, capturePending,
              timer, effectDeps, listenerVideo, pcs, chain, lastCreate, nSig, shareLog,
              uncaught, rendered>>

clockVars == <<now, delta, frameDue>>

bodyVars == <<pos, vz, vy>>

refVars == <<isOnFloor, wasOnFloor, isLanding, jumpType, jumpCooldown, currentRotation,
             targetRotation, currentNavTarget, lastPosition, stuckTime, lastUpdateRef,
             landTimers>>

expVars == <<targetLocation, isSitting, sitPose, pendingInteraction>>

histVars == <<lastEmit, tickLog>>

camVars == <<isDragging, cameraOrbit, cameraPolar, buttons, nMouse>>

charVars == <<clockVars, bodyVars, animation, refVars, expVars, histVars, camVars>>

vars == <<regVars, confVars, charVars>>

None == "none"

(***************************************************************************)
(* App: the remote registry                                               *)
(***************************************************************************)

\* Identifiers of the other participants, and this client's own socket id.
RemoteIds == {"p1", "p2"}
SelfId == "me"
AllIds == RemoteIds \cup {SelfId}

\* The fields a snapshot may carry besides its id, and the values of the model.
Fields == {"name", "x", "animation"}
FieldValues == {0, 1}

\* A payload: a function from some of the fields to values (a partial record).
Payloads == UNION {[fs -> FieldValues] : fs \in SUBSET Fields}
FullPayloads == [Fields -> FieldValues]

\* { ...a, ...b }: the fields of b over those of a.
Spread(a, b) ==
    [f \in (DOMAIN a) \cup (DOMAIN b) |-> IF f \in DOMAIN b THEN b[f] ELSE a[f]]

\* prev[id], which is undefined for an unknown id; spreading undefined gives {}.
PrevOf(prev, id) == IF id \in DOMAIN prev THEN prev[id] ELSE <<>>

\* The mutant of Delete used by the checks: nothing is deleted.
DeleteNot(obj, id) == obj

\* delete obj[id]
Delete(obj, id) == [k \in (DOMAIN obj) \ {id} |-> obj[k]]

\* { ...obj, [id]: v }
Put(obj, id, v) == [k \in (DOMAIN obj) \cup {id} |-> IF k = id THEN v ELSE obj[k]]

\* newSocket.on('init'): the server's map without this client's own entry.
OnInit(serverPlayers) ==
    /\ players' = Delete(serverPlayers, SelfId)
    /\ regEvent' = [type |-> "init", id |-> None]
    /\ UNCHANGED <<chatMessages, nChat, confVars, charVars>>

\* newSocket.on('playerJoined')
OnPlayerJoined(id, player) ==
    /\ players' = IF id # SelfId THEN Put(players, id, player) ELSE players
    /\ regEvent' = [type |-> "playerJoined", id |-> id]
    /\ UNCHANGED <<chatMessages, nChat, confVars, charVars>>

\* The mutant of MovedMerge used by the checks: a guarded merge.
MovedMergeGuarded(prev, id, player) ==
    IF id \in DOMAIN prev THEN Put(prev, id, Spread(prev[id], player)) ELSE prev

\* The mutant of MovedMerge used by the checks: replacement instead of merge.
MovedMergeReplace(prev, id, player) == Put(prev, id, player)

\* The updater of playerMoved: { ...prev, [id]: { ...prev[id], ...player } }.
MovedMerge(prev, id, player) == Put(prev, id, Spread(PrevOf(prev, id), player))

\* newSocket.on('playerMoved')
OnPlayerMoved(id, player) ==
    /\ players' = MovedMerge(players, id, player)
    /\ regEvent' = [type |-> "playerMoved", id |-> id, known |-> id \in DOMAIN players,
                     player |-> player]
    /\ UNCHANGED <<chatMessages, nChat, confVars, charVars>>

\* newSocket.on('playerLeft')
OnPlayerLeft(id) ==
    /\ players' = Delete(players, id)
    /\ regEvent' = [type |-> "playerLeft", id |-> id, known |-> id \in DOMAIN players]
    /\ UNCHANGED <<chatMessages, nChat, confVars, charVars>>

(***************************************************************************)
(* ConferenceScreen: peer sessions, candidate queue, reconnect watchdog   *)
(*                                                                         *)
(* The RTCPeerConnection is the browser's: an operation called on a        *)
(* connection is put on that connection's operations chain, the chain runs *)
(* its operations in the order they were called, and the continuation that *)
(* awaits an operation runs when the operation has settled.  An operation  *)
(* on a closed connection rejects; an answer is accepted only in           *)
(* have-local-offer; addIceCandidate rejects while the connection has no   *)
(* remote description.                                                     *)
(***************************************************************************)

\* useState stream / videoElement.srcObject: null, the captured local
\* stream, or (a slot number) the remote stream of the connection in that slot.
NoStream == 0
LocalStream == -1

\* The participants this client exchanges video signals with.
ConfIds == {"p1"}

\* Bounds of the session-manager model: connection objects alive at once and
\* signals received (in the full model, and in the model of one signalling peer).
MaxPc == 2
MaxSig == 1
MaxIceSig == 6

PcSlots == 1..MaxPc

\* The parts of the state createPeerConnection works on.
Cur ==
    [pcs |-> pcs, peerConnections |-> peerConnections, chain |-> chain,
     lastCreate |-> lastCreate]

\* A pending operation of a connection with what the continuation awaiting it
\* needs: the signal's sender, the candidate, and for processQueue's loop the
\* position in the array and the array itself once it is no longer the map's entry.
Op(op, from, cand) ==
    [op |-> op, from |-> from, cand |-> cand, idx |-> 0, arr |-> <<>>, attached |-> FALSE]

\* The connection stored under targetId has sent an offer that has not been
\* answered, or replaced one that had: the answer to that offer is on its way.
Owed(targetId) ==
    /\ peerConnections[targetId] # 0
    /\ LET old == pcs[peerConnections[targetId]] IN
       \/ old.initiator /\ old.sig = "have-local-offer"
       \/ old.owed /\ ~old.stale

\* The mutant of NewPc used by the checks: the local tracks are not added.
NewPcBare(targetId, isInitiator, video) ==
    [target |-> targetId, open |-> TRUE, initiator |-> isInitiator,
     sig |-> "stable", remoteSet |-> FALSE, applied |-> <<>>, video |-> video,
     tracks |-> FALSE, answers |-> 0, born |-> nSig,
     owed |-> Owed(targetId), stale |-> FALSE]

\* new RTCPeerConnection(ICE_SERVERS) with the handlers of lines 86-127 and the
\* tracks of the local stream added if there is one; applied lists the
\* candidates addIceCandidate accepted, each with whether it came from the
\* queue, answers counts the answers sent for this connection, and born is
\* the number of signals that had arrived when it was constructed; owed says
\* that the answer to an offer of a connection it replaces is on its way, and
\* stale that an answer arrived before this connection had sent its own offer.
NewPc(targetId, isInitiator, video) ==
    [target |-> targetId, open |-> TRUE, initiator |-> isInitiator,
     sig |-> "stable", remoteSet |-> FALSE, applied |-> <<>>, video |-> video,
     tracks |-> localStreamRef, answers |-> 0, born |-> nSig,
     owed |-> Owed(targetId), stale |-> FALSE]

\* A slot without an open connection: nothing of a closed connection is read again.
FreePc ==
    [target |-> None, open |-> FALSE, initiator |-> FALSE,
     sig |-> "stable", remoteSet |-> FALSE, applied |-> <<>>, video |-> FALSE,
     tracks |-> FALSE, answers |-> 0, born |-> 0,
     owed |-> FALSE, stale |-> FALSE]

\* The operations whose rejection runs code that changes state: the catch of
\* line 224 queues the candidate, and processQueue's loop goes on to its delete.
\* The other catches only log.
Lingers(o) == o.op \in {"addCand", "flush"}

\* pc.close() on the connection in slot i: its pending operations will reject.
Close(s, i) ==
    [s EXCEPT !.pcs[i] = FreePc,
              !.chain[i] = SelectSeq(s.chain[i], Lingers)]

\* The mutant of CloseExisting used by the checks: the old connection is left open.
CloseExistingNot(s, targetId) == s

\* if (peerConnections.current[targetId]) peerConnections.current[targetId].close()
CloseExisting(s, targetId) ==
    IF s.peerConnections[targetId] # 0 THEN Close(s, s.peerConnections[targetId]) ELSE s

\* The slots a new connection can take: no open connection, no operation
\* pending, and its stream is not the one the video element shows.
FreeSlots(s) ==
    {i \in PcSlots : ~s.pcs[i].open /\ s.chain[i] = <<>> /\ i # videoSrc}

\* There is room for createPeerConnection(targetId, ...) to construct a connection.
CanCreate(targetId) == FreeSlots(CloseExisting(Cur, targetId)) # {}

\* createPeerConnection(targetId, isInitiator) up to its first await; video says
\* whether the videoElement its closure holds is set.
CreatePeerConnection(s, targetId, isInitiator, video) ==
    LET c == CloseExisting(s, targetId)
        n == CHOOSE i \in FreeSlots(c) : \A j \in FreeSlots(c) : i <= j
    IN
    [pcs |-> [c.pcs EXCEPT ![n] = NewPc(targetId, isInitiator, video)],
     lastCreate |-> IF s.peerConnections[targetId] # 0 THEN "replaced" ELSE "fresh",
     peerConnections |-> [c.peerConnections EXCEPT ![targetId] = n],
     chain |-> IF isInitiator
               THEN [c.chain EXCEPT ![n] = <<Op("createOffer", targetId, 0)>>]
               ELSE c.chain]

RECURSIVE CloseSlots(_, _)
CloseSlots(s, slots) ==
    IF slots = {} THEN s
    ELSE LET i == CHOOSE j \in slots : TRUE IN CloseSlots(Close(s, i), slots \ {i})

\* Object.values(peerConnections.current).forEach(pc => pc.close());
\* peerConnections.current = {}
CloseAll(s) ==
    [CloseSlots(s, {s.peerConnections[id] : id \in ConfIds} \ {0})
        EXCEPT !.peerConnections = [id \in ConfIds |-> 0]]

\* The arrays that processQueue loops are still iterating stop being the map's
\* entries: each loop keeps iterating the array it started on.
Detach(ch, q, ids) ==
    [i \in PcSlots |->
        [k \in 1..Len(ch[i]) |->
            IF ch[i][k].attached /\ ch[i][k].from \in ids
            THEN [ch[i][k] EXCEPT !.attached = FALSE, !.arr = q[ch[i][k].from]]
            ELSE ch[i][k]]]

NoPeers == [id \in ConfIds |-> 0]
NoQueues == [id \in ConfIds |-> <<>>]

\* The mutant of ClearedQueues used by the checks: the queues are kept.
ClearedQueuesNot(q) == q

\* iceCandidateQueue.current = {}
ClearedQueues(q) == NoQueues

\* const onShareStarted = (broadcasterId) => ...
OnShareStarted(b) ==
    /\ b # SelfId
    /\ LET s == CreatePeerConnection(Cur, b, TRUE, listenerVideo) IN
        /\ pcs' = s.pcs
        /\ peerConnections' = s.peerConnections
        /\ chain' = s.chain
        /\ lastCreate' = s.lastCreate
    /\ remoteBroadcasterId' = b
    /\ UNCHANGED <<rendered, isBroadcaster, stream, videoSrc, connectionStatus, iceCandidateQueue,
                   localStreamRef, capturePending, timer, effectDeps, listenerVideo, nSig, shareLog, uncaught>>

\* const onShareEnded = () => ...
OnShareEnded ==
    /\ remoteBroadcasterId' = None
    /\ stream' = NoStream
    /\ connectionStatus' = "idle"
    /\ videoSrc' = IF listenerVideo THEN NoStream ELSE videoSrc
    /\ LET s == CloseAll(Cur) IN
        /\ pcs' = s.pcs
        /\ peerConnections' = s.peerConnections
        /\ chain' = Detach(s.chain, iceCandidateQueue, ConfIds)
    /\ iceCandidateQueue' = ClearedQueues(iceCandidateQueue)
    /\ UNCHANGED <<rendered, isBroadcaster, localStreamRef, capturePending, timer, effectDeps,
                   listenerVideo, lastCreate, nSig, shareLog, uncaught>>

\* const onSignal = async (data) => ... up to its first await on the connection.
\* (await createPeerConnection(from, false) awaits nothing that leaves the task.)
\* Candidates are numbered by the arrival of their signal.
OnSignal(from, type) ==
    /\ from # SelfId
    /\ LET s == IF peerConnections[from] = 0
                THEN CreatePeerConnection(Cur, from, FALSE, listenerVideo)
                ELSE Cur
           pc == s.peerConnections[from]
           op == CASE type = "offer" -> Op("setRemoteOffer", from, 0)
                   [] type = "answer" -> Op("setRemoteAnswer", from, 0)
                   [] type = "candidate" -> Op("addCand", from, nSig + 1)
       IN
        /\ pcs' = [s.pcs EXCEPT ![pc].stale =
                      @ \/ (/\ type = "answer"
                            /\ s.pcs[pc].owed
                            /\ s.pcs[pc].sig # "have-local-offer")]
        /\ peerConnections' = s.peerConnections
        /\ chain' = [s.chain EXCEPT ![pc] = Append(@, op)]
        /\ lastCreate' = s.lastCreate
    /\ nSig' = nSig + 1
    /\ UNCHANGED <<rendered, isBroadcaster, remoteBroadcasterId, stream, videoSrc, connectionStatus,
                   iceCandidateQueue, localStreamRef, capturePending, timer, effectDeps,
                   listenerVideo, shareLog, uncaught>>

\* processQueue(pc, fromId) up to its first await: a missing queue is a no-op,
\* otherwise the loop calls addIceCandidate on the first queued candidate.
ProcessQueue(ops, q, fromId) ==
    IF q[fromId] # <<>>
    THEN Append(ops, [op |-> "flush", from |-> fromId, cand |-> 0,
                      idx |-> 1, arr |-> <<>>, attached |-> TRUE])
    ELSE ops

\* The array a processQueue loop iterates.
ArrOf(o) == IF o.attached THEN iceCandidateQueue[o.from] ELSE o.arr

\* The operations whose await is inside a try block, so that its rejection
\* goes to a catch: createPeerConnection's try of lines 130-138, onSignal's of
\* lines 205-234 and 221-229, processQueue's of lines 241-245.
Caught(o) ==
    o.op \in {"createOffer", "setLocalOffer", "setRemoteOffer", "createAnswer",
              "setLocalAnswer", "setRemoteAnswer", "addCand", "flush"}

\* The outcome of operation o in the state connection i is in.
Accepts(i, o) ==
    LET p == pcs[i] IN
    CASE o.op = "createOffer" -> p.open
      [] o.op = "setLocalOffer" -> p.open /\ p.sig \in {"stable", "have-local-offer"}
      [] o.op = "setRemoteOffer" -> p.open
      [] o.op = "createAnswer" -> p.open /\ p.sig = "have-remote-offer"
      [] o.op = "setLocalAnswer" -> p.open /\ p.sig = "have-remote-offer"
      [] o.op = "setRemoteAnswer" -> p.open /\ p.sig = "have-local-offer"
      [] o.op = "addCand" -> p.open /\ p.remoteSet
      [] o.op = "flush" -> p.open /\ p.remoteSet

\* The mutant of NextOps used by the checks: the operation is called again.
NextOpsRetry(i) == Append(Tail(chain[i]), Head(chain[i]))

\* The pending operations of connection i after its oldest one settled and the
\* code awaiting it ran up to its next await.
NextOps(i) ==
    LET o == Head(chain[i])
        ok == Accepts(i, o)
        rest == Tail(chain[i])
    IN
    CASE o.op = "createOffer" /\ ok ->
           Append(rest, [o EXCEPT !.op = "setLocalOffer"])
      [] o.op = "setRemoteOffer" /\ ok ->
           Append(rest, [o EXCEPT !.op = "createAnswer"])
      [] o.op = "createAnswer" /\ ok ->
           Append(rest, [o EXCEPT !.op = "setLocalAnswer"])
      [] o.op \in {"setLocalAnswer", "setRemoteAnswer"} /\ ok ->
           ProcessQueue(rest, iceCandidateQueue, o.from)
      [] o.op = "flush" /\ o.idx < Len(ArrOf(o)) ->
           Append(rest, [o EXCEPT !.idx = o.idx + 1])
      [] OTHER -> rest

\* The oldest pending operation of connection i settles and the code awaiting
\* it runs up to its next await: createPeerConnection lines 130-138, onSignal
\* lines 205-234, processQueue lines 237-249.
OperationSettles(i) ==
    /\ i \in PcSlots
    /\ chain[i] # <<>>
    /\ LET o == Head(chain[i])
           ok == Accepts(i, o)
           ends == o.op = "flush" /\ o.idx >= Len(ArrOf(o))
           ch == [chain EXCEPT ![i] = NextOps(i)]
       IN
        /\ pcs' =
             CASE o.op = "setLocalOffer" /\ ok ->
                    [pcs EXCEPT ![i].sig = "have-local-offer"]
               [] o.op = "setRemoteOffer" /\ ok ->
                    [pcs EXCEPT ![i].sig = "have-remote-offer", ![i].remoteSet = TRUE]
               [] o.op = "setLocalAnswer" /\ ok ->
                    [pcs EXCEPT ![i].sig = "stable", ![i].answers = @ + 1]
               [] o.op = "setRemoteAnswer" /\ ok ->
                    [pcs EXCEPT ![i].sig = "stable", ![i].remoteSet = TRUE]
               [] o.op = "addCand" /\ ok ->
                    [pcs EXCEPT ![i].applied = Append(@, [c |-> o.cand, q |-> FALSE])]
               [] o.op = "flush" /\ ok ->
                    [pcs EXCEPT ![i].applied =
                                   Append(@, [c |-> ArrOf(o)[o.idx], q |-> TRUE])]
               [] OTHER -> pcs
        /\ iceCandidateQueue' =
             CASE o.op = "addCand" /\ ~ok ->
                    [iceCandidateQueue EXCEPT ![o.from] = Append(@, o.cand)]
               [] ends -> [iceCandidateQueue EXCEPT ![o.from] = <<>>]
               [] OTHER -> iceCandidateQueue
        /\ chain' = IF ends THEN Detach(ch, iceCandidateQueue, {o.from}) ELSE ch
        /\ uncaught' = (uncaught \/ (~ok /\ ~Caught(o)))
    /\ UNCHANGED <<rendered, isBroadcaster, remoteBroadcasterId, stream, videoSrc, connectionStatus,
                   peerConnections, localStreamRef, capturePending, timer, effectDeps,
                   listenerVideo, lastCreate, nSig, shareLog>>

\* pc.ontrack of connection i: the broadcaster's track arrives on a connection
\* that asked for video and has the answer applied.
OnTrack(i) ==
    /\ i \in PcSlots
    /\ pcs[i].open /\ pcs[i].initiator /\ pcs[i].remoteSet
    /\ IF pcs[i].video /\ videoSrc # i
       THEN stream' = i /\ videoSrc' = i
       ELSE UNCHANGED <<stream, videoSrc>>
    /\ UNCHANGED <<rendered, isBroadcaster, remoteBroadcasterId, connectionStatus, peerConnections,
                   iceCandidateQueue, localStreamRef, capturePending, timer, effectDeps,
                   listenerVideo, pcs, chain, lastCreate, lastCreate, nSig, shareLog, uncaught>>

\* The dependency values of the watchdog effect and of the listener effect
\* (socket does not change while the component is mounted).
CurDeps == [rb |-> remoteBroadcasterId, stream |-> stream, isB |-> isBroadcaster]

\* The mutant of WatchdogCleanup used by the checks: the cleanup leaves the timer.
WatchdogCleanupNot(t) == t

\* return () => { if (retryTimeoutRef.current) clearTimeout(retryTimeoutRef.current) }
WatchdogCleanup(t) == None

\* React runs the effects of the last render: the cleanup and body of the
\* watchdog effect when remoteBroadcasterId or stream changed, and the listener
\* effect (whose closures are those of that render) when isBroadcaster changed.
RunEffects ==
    /\ effectDeps # CurDeps
    /\ IF effectDeps.rb # remoteBroadcasterId \/ effectDeps.stream # stream
       THEN IF remoteBroadcasterId # None /\ stream = NoStream
            THEN /\ connectionStatus' = "connecting"
                 /\ timer' = remoteBroadcasterId
            ELSE /\ timer' = WatchdogCleanup(timer)
                 /\ connectionStatus' = IF stream # NoStream THEN "connected"
                                        ELSE connectionStatus
       ELSE UNCHANGED <<connectionStatus, timer>>
    /\ listenerVideo' = IF effectDeps.isB # isBroadcaster THEN TRUE ELSE listenerVideo
    /\ effectDeps' = CurDeps
    /\ UNCHANGED <<rendered, isBroadcaster, remoteBroadcasterId, stream, videoSrc, peerConnections,
                   iceCandidateQueue, localStreamRef, capturePending, pcs, chain, lastCreate, lastCreate, nSig, shareLog, uncaught>>

\* React renders the component with the state the handlers left and commits
\* it; the effects of that render are scheduled, not run.
Commit ==
    /\ rendered # CurDeps
    /\ rendered' = CurDeps
    /\ UNCHANGED <<isBroadcaster, remoteBroadcasterId, stream, videoSrc, connectionStatus,
                   peerConnections, iceCandidateQueue, localStreamRef, capturePending,
                   timer, effectDeps, listenerVideo, pcs, chain, lastCreate, nSig,
                   shareLog, uncaught>>

\* The scheduled effects of the committed render run, with the values that
\* render closed over: a handler that ran since the commit has changed the
\* state but not these. setConnectionStatus is queued behind whatever the
\* handler queued.
FlushPassiveEffects ==
    /\ effectDeps # rendered
    /\ IF effectDeps.rb # rendered.rb \/ effectDeps.stream # rendered.stream
       THEN IF rendered.rb # None /\ rendered.stream = NoStream
            THEN /\ connectionStatus' = "connecting"
                 /\ timer' = rendered.rb
            ELSE /\ timer' = WatchdogCleanup(timer)
                 /\ connectionStatus' = IF rendered.stream # NoStream THEN "connected"
                                        ELSE connectionStatus
       ELSE UNCHANGED <<connectionStatus, timer>>
    /\ listenerVideo' = IF effectDeps.isB # rendered.isB THEN TRUE ELSE listenerVideo
    /\ effectDeps' = rendered
    /\ UNCHANGED <<isBroadcaster, remoteBroadcasterId, stream, videoSrc, peerConnections,
                   iceCandidateQueue, localStreamRef, capturePending, pcs, chain,
                   lastCreate, nSig, shareLog, uncaught, rendered>>

\* The watchdog's setTimeout callback, 5000 ms after the effect armed it.
WatchdogFires ==
    /\ timer # None
    /\ LET s == CreatePeerConnection(Cur, timer, TRUE, TRUE) IN
        /\ pcs' = s.pcs
        /\ peerConnections' = s.peerConnections
        /\ chain' = s.chain
        /\ lastCreate' = s.lastCreate
    /\ timer' = None
    /\ UNCHANGED <<rendered, isBroadcaster, remoteBroadcasterId, stream, videoSrc, connectionStatus,
                   iceCandidateQueue, localStreamRef, capturePending, effectDeps,
                   listenerVideo, nSig, shareLog, uncaught>>

\* const forceReconnect = () => ..., behind the button shown while
\* !stream && remoteBroadcasterId.
ForceReconnect ==
    /\ remoteBroadcasterId # None /\ stream = NoStream
    /\ LET s == CreatePeerConnection(Cur, remoteBroadcasterId, TRUE, TRUE) IN
        /\ pcs' = s.pcs
        /\ peerConnections' = s.peerConnections
        /\ chain' = s.chain
        /\ lastCreate' = s.lastCreate
    /\ UNCHANGED <<rendered, isBroadcaster, remoteBroadcasterId, stream, videoSrc, connectionStatus,
                   iceCandidateQueue, localStreamRef, capturePending, timer, effectDeps,
                   listenerVideo, nSig, shareLog, uncaught>>

\* const startSharing = async () => ... up to await getDisplayMedia; it is
\* offered while no remote broadcaster is known.  supported says whether
\* navigator.mediaDevices.getDisplayMedia exists; without it the call returns
\* after its alert.
StartSharing(supported) ==
    /\ remoteBroadcasterId = None /\ ~capturePending
    /\ capturePending' = supported
    /\ shareLog' = IF supported THEN shareLog ELSE "unsupported"
    /\ UNCHANGED <<rendered, isBroadcaster, remoteBroadcasterId, stream, videoSrc, connectionStatus,
                   peerConnections, iceCandidateQueue, localStreamRef, timer, effectDeps,
                   listenerVideo, pcs, chain, lastCreate, lastCreate, nSig, uncaught>>

\* The mutant of Resolved used by the checks: the rejection is not caught.
ResolvedNot(granted) == TRUE

\* try { const mediaStream = await getDisplayMedia(...); ... } catch (err) { ... }:
\* the statements after the await run when the request was granted.
Resolved(granted) == granted

\* startSharing after getDisplayMedia settled: lines 282-302 when it resolved,
\* the catch of line 303 when it rejected.
CaptureSettles(granted) ==
    /\ capturePending
    /\ capturePending' = FALSE
    /\ IF Resolved(granted)
       THEN /\ stream' = LocalStream
            /\ videoSrc' = LocalStream
            /\ localStreamRef' = TRUE
            /\ isBroadcaster' = TRUE
            /\ shareLog' = "start-share"
       ELSE /\ shareLog' = "rejected"
            /\ UNCHANGED <<stream, videoSrc, localStreamRef, isBroadcaster>>
    /\ UNCHANGED <<rendered, remoteBroadcasterId, connectionStatus, peerConnections,
                   iceCandidateQueue, timer, effectDeps, listenerVideo, pcs, chain,
                   lastCreate, nSig, uncaught>>

\* const stopSharing = () => ..., from the stop button or the capture track's onended.
StopSharing ==
    /\ localStreamRef
    /\ stream' = NoStream
    /\ localStreamRef' = FALSE
    /\ isBroadcaster' = FALSE
    /\ connectionStatus' = "idle"
    /\ videoSrc' = NoStream
    /\ LET s == CloseAll(Cur) IN
        /\ pcs' = s.pcs
        /\ peerConnections' = s.peerConnections
        /\ chain' = Detach(s.chain, iceCandidateQueue, ConfIds)
    /\ iceCandidateQueue' = ClearedQueues(iceCandidateQueue)
    /\ shareLog' = "stop-share"
    /\ UNCHANGED <<rendered, remoteBroadcasterId, capturePending, timer, effectDeps, listenerVideo,
                   lastCreate, nSig, uncaught>>

InitConference ==
    /\ isBroadcaster = FALSE
    /\ remoteBroadcasterId = None
    /\ stream = NoStream
    /\ videoSrc = NoStream
    /\ connectionStatus = "idle"
    /\ peerConnections = NoPeers
    /\ iceCandidateQueue = NoQueues
    /\ localStreamRef = FALSE
    /\ capturePending = FALSE
    /\ timer = None
    /\ effectDeps = [rb |-> None, stream |-> NoStream, isB |-> FALSE]
    /\ listenerVideo = FALSE
    /\ pcs = [i \in PcSlots |-> FreePc]
    /\ chain = [i \in PcSlots |-> <<>>]
    /\ lastCreate = None
    /\ nSig = 0
    /\ shareLog = None
    /\ uncaught = FALSE
    /\ rendered = [rb |-> None, stream |-> NoStream, isB |-> FALSE]

(***************************************************************************)
(* Character: the per-frame callback, with the Experience callbacks        *)
(*                                                                         *)
(* The avatar moves along one horizontal axis (z), seen by a camera that    *)
(* has not been turned; the keys that move it along that axis are backward *)
(* (dir = 1) and forward (dir = -1).  The physics engine is the            *)
(* library's: between two frames it moves the body at the velocity the     *)
(* last frame set unless something blocks it, and it sets the vertical     *)
(* velocity.  Angles are milliradians.  The camera placement, which writes *)
(* nothing the callback reads back, is left out.                           *)
(***************************************************************************)

\* useControls('Character Controls', ...) defaults, in mm/s.
walkSpeed == 4000
runSpeed == 7000
rotationSpeed == 12
jumpForce == 5500

\* The literals of useFrame: the emission interval and the jump cooldown (ms),
\* the stuck limit (ms), the arrival, near and whisker distances (mm), the
\* landing velocity (mm/s), the landing lock (ms), the sitting rotation gain,
\* the vertical velocity above which a collision is a head bump (mm/s), and
\* the moving threshold of the run jump (mm/s).
UpdateInterval == 50
JumpCooldownMs == 500
StuckLimit == 2000
ArriveDistance == 200
NearDistance == 1500
WhiskerDistance == 1500
LandingVelocity == -2000
LandingLock == 200
SitRotationGain == 10
HeadBumpVelocity == 100
MovingThreshold == 100

\* distMoved < 0.01 * runSpeed, in mm.
StuckMove == runSpeed \div 100

\* Math.PI in milliradians.
Pi == 3142

\* let groundDistance = 100, in mm: what the downward ray gives when it hits
\* nothing within its length; and what it gives for an avatar that stands on
\* a surface, the origin of the ray being 0.5 above its feet.
ProbeMiss == 100000
ProbeStanding == 500

\* The threshold of the ground check, in mm: groundDistance < 0.6.
GroundThreshold == 600

\* getKeys() with no key down, an emission that takes no time, no obstacle in
\* the whiskers, and the downward ray hitting the surface the avatar stands on.
NoKeys ==
    [dir |-> 0, jump |-> FALSE, run |-> FALSE, lag |-> 0, steer |-> 1,
     probe |-> ProbeStanding]

\* Date.now() when the component mounts: any value far above the cooldown.
Epoch == 1000

\* null, for a ref or a state that otherwise holds <<value>>.
Null == <<>>

Abs(n) == IF n < 0 THEN -n ELSE n

\* while (angleDiff > Math.PI) angleDiff -= Math.PI * 2;
\* while (angleDiff < -Math.PI) angleDiff += Math.PI * 2;
RECURSIVE WrapAngle(_)
WrapAngle(a) ==
    IF a > Pi THEN WrapAngle(a - 2 * Pi)
    ELSE IF a < -Pi THEN WrapAngle(a + 2 * Pi)
    ELSE a

\* currentRotation += angleDiff * gain * delta, delta in ms.
Turn(current, target, gain, dt) ==
    current + (WrapAngle(target - current) * gain * dt) \div 1000

\* Math.atan2(moveX, moveZ) with moveX = 0.
Atan2Z(moveZ) == IF moveZ < 0 THEN Pi ELSE 0

\* The mutant of ThrottleOpen used by the checks: no throttle.
ThrottleOpenNot(t, last) == TRUE

\* Date.now() - lastUpdateRef.current > 50
ThrottleOpen(t, last) == t - last > UpdateInterval

\* The mutant of CooldownOver used by the checks: no cooldown.
CooldownOverNot(t, last) == TRUE

\* Date.now() - jumpCooldown.current > 500
CooldownOver(t, last) == t - last > JumpCooldownMs

\* The mutant of MoveAnimation used by the checks: the run flag is not read.
MoveAnimationNot(run) == "Run"

\* newAnimation = run ? 'Run' : 'Walking'
MoveAnimation(run) == IF run THEN "Run" ELSE "Walking"

\* The mutant of Continues used by the checks: the distance is not read.
ContinuesNot(distance, stuck) == stuck < StuckLimit

\* distance > 0.2 && stuckTime.current < 2.0
Continues(distance, stuck) == distance > ArriveDistance /\ stuck < StuckLimit

\* The mutant of HardFall used by the checks: the threshold itself counts.
HardFallNot(v) == v <= LandingVelocity

\* currentYVelocity < -2.0
HardFall(v) == v < LandingVelocity

\* The mutant of IsMoving used by the checks: the velocity is not read.
IsMovingNot(moveZ) == TRUE

\* const isMoving = Math.abs(moveX) > 0.1 || Math.abs(moveZ) > 0.1, moveX = 0
IsMoving(moveZ) == Abs(moveZ) > MovingThreshold

\* The mutant of AirLogic used by the checks: the computed label is kept.
AirLogicNot(floor, type, computed) == computed

\* newAnimation = jumpType.current in the jump, and
\* if (!isOnFloor.current) { newAnimation = jumpType.current }
AirLogic(floor, type, computed) == IF ~floor THEN type ELSE computed

\* The mutant of AnimName used by the checks: isSitting is not read.
AnimNameNot(sitting, anim) == anim

\* The clip the Animation Management effect plays: Sitting while isSitting,
\* otherwise the clip named by the animation state.
AnimName(sitting, anim) == IF sitting THEN "Sitting" ELSE anim

\* What a frame leaves as it is unless it says otherwise.
Same ==
    [pos |-> pos, vz |-> vz, vy |-> vy, animation |-> animation,
     isOnFloor |-> isOnFloor, wasOnFloor |-> wasOnFloor, isLanding |-> isLanding,
     jumpType |-> jumpType, jumpCooldown |-> jumpCooldown,
     currentRotation |-> currentRotation, targetRotation |-> targetRotation,
     currentNavTarget |-> currentNavTarget, lastPosition |-> lastPosition,
     stuckTime |-> stuckTime, lastUpdateRef |-> lastUpdateRef, landTimers |-> landTimers,
     targetLocation |-> targetLocation, isSitting |-> isSitting, sitPose |-> sitPose,
     pendingInteraction |-> pendingInteraction, lastEmit |-> lastEmit,
     emitted |-> FALSE, reached |-> FALSE, jumped |-> FALSE, stood |-> FALSE]

\* if (onUpdate && Date.now() - lastUpdateRef.current > 50) { onUpdate(data);
\* lastUpdateRef.current = Date.now() }, the second Date.now() lag ms later.
Emit(f, z, rot, anim, lag) ==
    IF ThrottleOpen(now, lastUpdateRef)
    THEN [f EXCEPT !.lastEmit = <<[z |-> z, rotation |-> rot, animation |-> anim, at |-> now]>>,
                   !.lastUpdateRef = now + lag,
                   !.emitted = TRUE]
    ELSE f

\* The mutant of WantsToStand used by the checks: the jump key is not read.
WantsToStandNot(k) == k.dir # 0

\* forward || backward || left || right || jump
WantsToStand(k) == k.dir # 0 \/ k.jump

\* The sitting branch of useFrame.
SittingFrame(k) ==
    IF WantsToStand(k)
    THEN [Same EXCEPT !.isSitting = FALSE, !.sitPose = Null, !.stood = TRUE]
    ELSE LET rot == Turn(currentRotation, sitPose[1].rotation, SitRotationGain, delta) IN
         Emit([Same EXCEPT !.vz = 0, !.vy = 0, !.pos = sitPose[1].position,
                           !.currentRotation = rot],
              sitPose[1].position, rot, "Sitting", k.lag)

\* The movement calculation of useFrame: the horizontal velocity, the speed,
\* the animation, and what it writes to the refs.
Movement(k, landing) ==
    LET base == [moveZ |-> 0, desiredSpeed |-> 0, newAnimation |-> animation,
                 target |-> currentNavTarget, targetRotation |-> targetRotation,
                 lastPosition |-> lastPosition, stuckTime |-> stuckTime,
                 reached |-> FALSE]
    IN
    IF landing THEN [base EXCEPT !.newAnimation = "land"]
    ELSE IF k.dir # 0 THEN
        LET speed == IF k.run THEN runSpeed ELSE walkSpeed IN
        [base EXCEPT !.target = Null,
                     !.desiredSpeed = speed,
                     !.newAnimation = IF isOnFloor
                                      THEN MoveAnimation(k.run)
                                      ELSE animation,
                     !.moveZ = k.dir * speed,
                     !.targetRotation = Atan2Z(k.dir * speed)]
    ELSE IF currentNavTarget # Null THEN
        LET dx == currentNavTarget[1] - pos
            distance == Abs(dx)
            distMoved == Abs(pos - lastPosition)
            stuck == IF distMoved < StuckMove THEN stuckTime + delta ELSE 0
            rawDir == IF dx > 0 THEN 1 ELSE IF dx < 0 THEN -1 ELSE 0
            finalDir == IF distance > WhiskerDistance THEN rawDir * k.steer ELSE rawDir
        IN
        IF Continues(distance, stuck)
        THEN [base EXCEPT !.lastPosition = pos,
                          !.stuckTime = stuck,
                          !.newAnimation = IF isOnFloor THEN "Run" ELSE animation,
                          !.desiredSpeed = runSpeed,
                          !.moveZ = finalDir * runSpeed,
                          !.targetRotation = Atan2Z(finalDir * runSpeed)]
        ELSE [base EXCEPT !.lastPosition = pos,
                          !.reached = distance < NearDistance \/ stuck > StuckLimit,
                          !.target = Null,
                          !.stuckTime = 0,
                          !.newAnimation = IF isOnFloor THEN "Idle" ELSE animation]
    ELSE [base EXCEPT !.newAnimation = IF isOnFloor THEN "Idle" ELSE animation]

\* handleTargetReached of Experience, applied to a frame's result.
HandleTargetReached(f) ==
    IF pendingInteraction # Null
    THEN [f EXCEPT !.targetLocation = Null,
                   !.sitPose = pendingInteraction,
                   !.isSitting = TRUE,
                   !.pendingInteraction = Null,
                   !.reached = TRUE]
    ELSE [f EXCEPT !.targetLocation = Null, !.reached = TRUE]

\* The branch of useFrame after the sitting branch.
MovingFrame(k) ==
    LET lands == ~wasOnFloor /\ isOnFloor /\ HardFall(vy)
        landing == isLanding \/ lands
        m == Movement(k, landing)
        jumps == k.jump /\ isOnFloor /\ ~landing /\ CooldownOver(now, jumpCooldown)
        type == IF ~jumps THEN jumpType
                ELSE IF k.run /\ IsMoving(m.moveZ) THEN "RunJump" ELSE "Jump"
        floor == isOnFloor /\ ~jumps
        anim == AirLogic(floor, type, m.newAnimation)
        rot == IF m.desiredSpeed > 0 \/ m.target # Null
               THEN Turn(currentRotation, m.targetRotation, rotationSpeed, delta)
               ELSE currentRotation
        f == [Same EXCEPT !.isLanding = landing,
                          !.landTimers = IF lands THEN landTimers \cup {now + LandingLock}
                                         ELSE landTimers,
                          !.wasOnFloor = isOnFloor,
                          !.currentNavTarget = m.target,
                          !.targetRotation = m.targetRotation,
                          !.lastPosition = m.lastPosition,
                          !.stuckTime = m.stuckTime,
                          !.vz = m.moveZ,
                          !.vy = IF jumps THEN jumpForce ELSE vy,
                          !.isOnFloor = floor,
                          !.jumpCooldown = IF jumps THEN now ELSE jumpCooldown,
                          !.jumpType = type,
                          !.jumped = jumps,
                          !.animation = anim,
                          !.currentRotation = rot]
        g == IF m.reached THEN HandleTargetReached(f) ELSE f
    IN
    Emit(g, pos, rot, anim, k.lag)

\* useFrame((state, delta) => ...): what one call leaves behind.
UseFrame(k) ==
    IF isSitting /\ sitPose # Null THEN SittingFrame(k) ELSE MovingFrame(k)

\* The frame loop calls the useFrame callback with the keys that are down;
\* lag is the time the emission takes.
Tick(k) ==
    /\ frameDue
    /\ \E f \in {UseFrame(k)} :
        /\ pos' = f.pos
        /\ vz' = f.vz
        /\ vy' = f.vy
        /\ animation' = f.animation
        /\ isOnFloor' = f.isOnFloor
        /\ wasOnFloor' = f.wasOnFloor
        /\ isLanding' = f.isLanding
        /\ jumpType' = f.jumpType
        /\ jumpCooldown' = f.jumpCooldown
        /\ currentRotation' = f.currentRotation
        /\ targetRotation' = f.targetRotation
        /\ currentNavTarget' = f.currentNavTarget
        /\ lastPosition' = f.lastPosition
        /\ stuckTime' = f.stuckTime
        /\ lastUpdateRef' = f.lastUpdateRef
        /\ landTimers' = f.landTimers
        /\ targetLocation' = f.targetLocation
        /\ isSitting' = f.isSitting
        /\ sitPose' = f.sitPose
        /\ pendingInteraction' = f.pendingInteraction
        /\ lastEmit' = f.lastEmit
        /\ tickLog' = [emitted |-> f.emitted, reached |-> f.reached,
                       jumped |-> f.jumped, stood |-> f.stood, input |-> k]
        /\ now' = IF f.emitted THEN now + k.lag ELSE now
    /\ frameDue' = FALSE
    /\ UNCHANGED <<delta, camVars>>

\* dt ms pass until the next frame: the physics engine moves the body at the
\* velocity the last frame set, unless it is blocked, and leaves it with the
\* vertical velocity vyNew.
Advance(dt, blocked, vyNew) ==
    /\ ~frameDue
    /\ now' = now + dt
    /\ delta' = dt
    /\ frameDue' = TRUE
    /\ pos' = IF blocked THEN pos ELSE pos + (vz * dt) \div 1000
    /\ vy' = vyNew
    /\ UNCHANGED <<vz, animation, refVars, expVars, histVars, camVars>>

\* The mutant of LandingTimeout used by the checks: the callback runs before
\* it is due.
LandingTimeoutEarly(d) ==
    /\ d \in landTimers
    /\ isLanding' = FALSE
    /\ landTimers' = landTimers \ {d}
    /\ UNCHANGED <<clockVars, bodyVars, animation, isOnFloor, wasOnFloor, jumpType,
                   jumpCooldown, currentRotation, targetRotation, currentNavTarget,
                   lastPosition, stuckTime, lastUpdateRef, expVars, histVars, camVars>>

\* setTimeout(() => { isLanding.current = false; }, 200), due at d.
LandingTimeout(d) ==
    /\ d \in landTimers
    /\ now >= d
    /\ isLanding' = FALSE
    /\ landTimers' = landTimers \ {d}
    /\ UNCHANGED <<clockVars, bodyVars, animation, isOnFloor, wasOnFloor, jumpType,
                   jumpCooldown, currentRotation, targetRotation, currentNavTarget,
                   lastPosition, stuckTime, lastUpdateRef, expVars, histVars, camVars>>

\* onCollisionEnter of the RigidBody
OnCollisionEnter ==
    /\ isOnFloor' = IF vy <= HeadBumpVelocity THEN TRUE ELSE isOnFloor
    /\ UNCHANGED <<clockVars, bodyVars, animation, wasOnFloor, isLanding, jumpType,
                   jumpCooldown, currentRotation, targetRotation, currentNavTarget,
                   lastPosition, stuckTime, lastUpdateRef, landTimers, expVars, histVars, camVars>>

\* The mutant of HandleFloorClick used by the checks: the pending interaction
\* is kept.
HandleFloorClickKeeps(point) ==
    /\ isSitting' = FALSE
    /\ sitPose' = IF isSitting THEN Null ELSE sitPose
    /\ targetLocation' = <<point>>
    /\ currentNavTarget' = <<point>>
    /\ stuckTime' = 0
    /\ UNCHANGED <<clockVars, bodyVars, animation, isOnFloor, wasOnFloor, isLanding,
                   jumpType, jumpCooldown, currentRotation, targetRotation,
                   lastPosition, lastUpdateRef, landTimers, pendingInteraction,
                   histVars, camVars>>

\* handleFloorClick(point) of Experience, with the effect of Character that
\* copies the new movementTarget.
HandleFloorClick(point) ==
    /\ isSitting' = FALSE
    /\ sitPose' = IF isSitting THEN Null ELSE sitPose
    /\ targetLocation' = <<point>>
    /\ pendingInteraction' = Null
    /\ currentNavTarget' = <<point>>
    /\ stuckTime' = 0
    /\ UNCHANGED <<clockVars, bodyVars, animation, isOnFloor, wasOnFloor, isLanding,
                   jumpType, jumpCooldown, currentRotation, targetRotation,
                   lastPosition, lastUpdateRef, landTimers, histVars, camVars>>

\* handleChairInteract(entryPos, sitPos, sitRot) of Experience, with the
\* effect of Character that copies the new movementTarget.
HandleChairInteract(entryPos, sitPos, sitRot) ==
    /\ targetLocation' = <<entryPos>>
    /\ pendingInteraction' = <<[position |-> sitPos, rotation |-> sitRot]>>
    /\ currentNavTarget' = <<entryPos>>
    /\ stuckTime' = 0
    /\ UNCHANGED <<clockVars, bodyVars, animation, isOnFloor, wasOnFloor, isLanding,
                   jumpType, jumpCooldown, currentRotation, targetRotation,
                   lastPosition, lastUpdateRef, landTimers, isSitting, sitPose, histVars, camVars>>

\* useControls: camSens, in milliradians per pixel.
camSens == 5

\* The margin that keeps the polar angle off the pole and off the floor: 0.1.
PolarMargin == 100

\* The mutant of ClampPolar used by the checks: the angle is not clamped.
ClampPolarNot(p) == p

\* Math.max(0.1, Math.min(Math.PI / 2 - 0.1, p))
ClampPolar(p) ==
    LET high == Pi \div 2 - PolarMargin
        low == IF p < high THEN p ELSE high
    IN IF low > PolarMargin THEN low ELSE PolarMargin

\* handleMouseDown: the button goes down.
HandleMouseDown(button) ==
    /\ button \notin buttons
    /\ buttons' = buttons \cup {button}
    /\ isDragging' = IF button = 2 THEN TRUE ELSE isDragging
    /\ UNCHANGED <<cameraOrbit, cameraPolar, nMouse, clockVars, bodyVars, animation,
                   refVars, expVars, histVars>>

\* handleMouseUp: a button goes up, whichever it is.
HandleMouseUp(button) ==
    /\ button \in buttons
    /\ buttons' = buttons \ {button}
    /\ isDragging' = FALSE
    /\ UNCHANGED <<cameraOrbit, cameraPolar, nMouse, clockVars, bodyVars, animation,
                   refVars, expVars, histVars>>

\* handleMouseMove with e.movementX = mx and e.movementY = my.
HandleMouseMove(mx, my) ==
    /\ IF isDragging
       THEN /\ cameraOrbit' = cameraOrbit - mx * camSens
            /\ cameraPolar' = ClampPolar(cameraPolar - my * camSens)
       ELSE UNCHANGED <<cameraOrbit, cameraPolar>>
    /\ nMouse' = nMouse + 1
    /\ UNCHANGED <<isDragging, buttons, clockVars, bodyVars, animation, refVars, expVars,
                   histVars>>

InitCharacter ==
    /\ now = Epoch
    /\ delta = 0
    /\ frameDue = FALSE
    /\ pos = 0
    /\ vz = 0
    /\ vy = 0
    /\ animation = "Idle"
    /\ isOnFloor = TRUE
    /\ wasOnFloor = TRUE
    /\ isLanding = FALSE
    /\ jumpType = "Jump"
    /\ jumpCooldown = 0
    /\ currentRotation = 0
    /\ targetRotation = 0
    /\ currentNavTarget = Null
    /\ lastPosition = 0
    /\ stuckTime = 0
    /\ lastUpdateRef = 0
    /\ landTimers = {}
    /\ targetLocation = Null
    /\ isSitting = FALSE
    /\ sitPose = Null
    /\ pendingInteraction = Null
    /\ lastEmit = Null
    /\ tickLog = [emitted |-> FALSE, reached |-> FALSE, jumped |-> FALSE, stood |-> FALSE,
                  input |-> NoKeys]
    /\ isDragging = FALSE
    /\ cameraOrbit = 0
    /\ cameraPolar = Pi \div 4
    /\ buttons = {}
    /\ nMouse = 0

\* The number of messages prev.slice(-49) keeps.
ChatKeep == 49

\* The mutant of SliceLast used by the checks: prev.slice(0, n).
SliceLastNot(seq, n) == SubSeq(seq, 1, IF Len(seq) < n THEN Len(seq) ELSE n)

\* seq.slice(-n), n > 0: the last n elements, all of them if there are fewer.
SliceLast(seq, n) ==
    IF Len(seq) <= n THEN seq ELSE SubSeq(seq, Len(seq) - n + 1, Len(seq))

\* newSocket.on('chat', ...): the messages are named by their arrival number.
OnChat(message) ==
    /\ chatMessages' = Append(SliceLast(chatMessages, ChatKeep), message)
    /\ nChat' = nChat + 1
    /\ UNCHANGED <<players, regEvent, confVars, charVars>>

(***************************************************************************)
(* The relay: its players map, and what it sends to this client            *)
(*                                                                         *)
(* The connection delivers the relay's events to this client in the order  *)
(* they were sent.  A socket id names one connection and is not used       *)
(* again.  This client connects once and stays connected.                  *)
(***************************************************************************)

\* players[socket.id] = { name: "Guest", x: 0, ..., animation: "idle" }
SrvDefaults == [f \in Fields |-> 0]

\* The mutant of Enqueue used by the checks: the newest event overtakes.
EnqueueNot(box, msg) == <<msg>> \o box

\* socket.emit / io.emit onto this client's connection.
Enqueue(box, msg) == Append(box, msg)

\* The events of the others that reach this client: socket.broadcast.emit and
\* io.emit, when this client is connected.
ToSelf(id, msg) ==
    IF id # SelfId /\ SelfId \in DOMAIN srvPlayers THEN Enqueue(inbox, msg) ELSE inbox

\* if (broadcasterId) socket.emit("share-started", broadcasterId)
ShareState(box) ==
    IF broadcasterId # None
    THEN Enqueue(box, [type |-> "share-started", id |-> broadcasterId])
    ELSE box

\* io.on("connection"): the defaults are stored, init is sent to the socket,
\* and share-started after it if somebody is broadcasting.
SrvConnection(id) ==
    /\ id \notin DOMAIN srvPlayers
    /\ id \notin gone
    /\ srvPlayers' = Put(srvPlayers, id, SrvDefaults)
    /\ inbox' = IF id = SelfId
                THEN ShareState(Enqueue(inbox, [type |-> "init", players |-> srvPlayers']))
                ELSE inbox
    /\ UNCHANGED <<gone, leftSeen, broadcasterId, listening, broadcasters,
                   players, chatMessages, nChat, regEvent>>

\* socket.on("join")
SrvJoin(id, name) ==
    /\ id \in DOMAIN srvPlayers
    /\ srvPlayers' = Put(srvPlayers, id, Spread(srvPlayers[id], [name |-> name]))
    /\ inbox' = ToSelf(id, [type |-> "playerJoined", id |-> id, player |-> srvPlayers'[id]])
    /\ UNCHANGED <<gone, leftSeen, broadcasterId, listening, broadcasters,
                   players, chatMessages, nChat, regEvent>>

\* socket.on("move")
SrvMove(id, data) ==
    /\ id \in DOMAIN srvPlayers
    /\ srvPlayers' = Put(srvPlayers, id, Spread(srvPlayers[id], data))
    /\ inbox' = ToSelf(id, [type |-> "playerMoved", id |-> id, player |-> data])
    /\ UNCHANGED <<gone, leftSeen, broadcasterId, listening, broadcasters,
                   players, chatMessages, nChat, regEvent>>

\* socket.on("start-share"), as the relay receives it.  The client that sent
\* it, when it is another participant's, runs the startSharing of this
\* repository: it set its isBroadcaster before it emitted the message.
SrvStartShare(id) ==
    /\ id \in DOMAIN srvPlayers
    /\ broadcasterId' = id
    /\ broadcasters' = IF id # SelfId THEN broadcasters \cup {id} ELSE broadcasters
    /\ inbox' = ToSelf(id, [type |-> "share-started", id |-> id])
    /\ UNCHANGED <<srvPlayers, gone, leftSeen, listening,
                   players, chatMessages, nChat, regEvent>>

\* socket.on("stop-share"), as the relay receives it; the stopSharing of
\* another participant's client cleared its isBroadcaster before it emitted it.
SrvStopShare(id) ==
    /\ id \in DOMAIN srvPlayers
    /\ broadcasterId' = None
    /\ broadcasters' = broadcasters \ {id}
    /\ inbox' = ToSelf(id, [type |-> "share-ended"])
    /\ UNCHANGED <<srvPlayers, gone, leftSeen, listening,
                   players, chatMessages, nChat, regEvent>>

\* The mutant of SrvDisconnect used by the checks: the broadcaster is kept.
SrvDisconnectKeeps(id) ==
    /\ id \in DOMAIN srvPlayers
    /\ srvPlayers' = Delete(srvPlayers, id)
    /\ gone' = gone \cup {id}
    /\ broadcasters' = broadcasters \ {id}
    /\ inbox' = ToSelf(id, [type |-> "playerLeft", id |-> id])
    /\ UNCHANGED <<leftSeen, broadcasterId, listening, players, chatMessages, nChat,
                   regEvent>>

\* socket.on("disconnect") of another participant: playerLeft to everybody,
\* and share-ended after it if the broadcaster was the one that left.
SrvDisconnect(id) ==
    /\ id \in DOMAIN srvPlayers
    /\ srvPlayers' = Delete(srvPlayers, id)
    /\ gone' = gone \cup {id}
    /\ broadcasterId' = IF id = broadcasterId THEN None ELSE broadcasterId
    /\ broadcasters' = broadcasters \ {id}
    /\ inbox' = LET left == ToSelf(id, [type |-> "playerLeft", id |-> id]) IN
                IF id = broadcasterId /\ id # SelfId /\ SelfId \in DOMAIN srvPlayers
                THEN Enqueue(left, [type |-> "share-ended"])
                ELSE left
    /\ UNCHANGED <<leftSeen, listening, players, chatMessages, nChat, regEvent>>

\* The events App's listeners handle; they are registered when App mounts.
RegistryEvents == {"init", "playerJoined", "playerMoved", "playerLeft"}

\* This client handles the registry event at the head of its connection.
Deliver ==
    /\ inbox # <<>>
    /\ Head(inbox).type \in RegistryEvents
    /\ LET m == Head(inbox) IN
        /\ CASE m.type = "init" -> OnInit(m.players)
             [] m.type = "playerJoined" -> OnPlayerJoined(m.id, m.player)
             [] m.type = "playerMoved" -> OnPlayerMoved(m.id, m.player)
             [] m.type = "playerLeft" -> OnPlayerLeft(m.id)
        /\ leftSeen' = IF m.type = "playerLeft" THEN leftSeen \cup {m.id} ELSE leftSeen
    /\ inbox' = Tail(inbox)
    /\ UNCHANGED <<srvPlayers, gone, broadcasterId, listening, broadcasters>>

\* ConferenceScreen's listener effect runs for the first time:
\* socket.on('share-started', ...), socket.on('share-ended', ...).  The screen
\* is inside Experience, which App renders under <Suspense> once isJoined is
\* set and which suspends in useTexture, so the effect runs when the assets
\* have loaded, at any time after handleJoin called socket.connect().
MountConferenceScreen ==
    /\ ~listening
    /\ listening' = TRUE
    /\ UNCHANGED <<srvPlayers, inbox, gone, leftSeen, broadcasterId, broadcasters,
                   players, chatMessages, nChat, regEvent, confVars, charVars>>

\* This client receives the share event at the head of its connection: the
\* socket calls the listeners registered for it, and an event nobody listens
\* to is dropped.
DeliverShare ==
    /\ inbox # <<>>
    /\ Head(inbox).type \in {"share-started", "share-ended"}
    /\ LET m == Head(inbox) IN
        CASE ~listening -> UNCHANGED confVars
          [] listening /\ m.type = "share-ended" -> OnShareEnded
          [] listening /\ m.type = "share-started" /\ m.id = SelfId -> UNCHANGED confVars
          [] listening /\ m.type = "share-started" /\ m.id # SelfId ->
               CanCreate(m.id) /\ OnShareStarted(m.id)
    /\ inbox' = Tail(inbox)
    /\ UNCHANGED <<srvPlayers, gone, leftSeen, broadcasterId, listening, broadcasters,
                   players, chatMessages, nChat, regEvent, charVars>>

InitRelay ==
    /\ srvPlayers = <<>>
    /\ inbox = <<>>
    /\ gone = {}
    /\ leftSeen = {}
    /\ broadcasterId = None
    /\ listening = FALSE
    /\ broadcasters = {}

InitRegistry ==
    /\ players = <<>>
    /\ chatMessages = <<>>
    /\ nChat = 0
    /\ regEvent = [type |-> "mount", id |-> None]

Init == InitRegistry /\ InitRelay /\ InitConference /\ InitCharacter

\* The events the relay can deliver to this client's registry handlers.
NextRegistry ==
    \/ \E ids \in SUBSET AllIds : \E p \in FullPayloads :
          OnInit([i \in ids |-> p]) /\ UNCHANGED relayVars
    \/ \E id \in RemoteIds : \E p \in FullPayloads :
          OnPlayerJoined(id, p) /\ UNCHANGED relayVars
    \/ \E id \in RemoteIds : \E p \in Payloads :
          OnPlayerMoved(id, p) /\ UNCHANGED relayVars
    \/ \E id \in RemoteIds : OnPlayerLeft(id) /\ UNCHANGED relayVars

SpecRegistry == Init /\ [][NextRegistry]_vars

\* The session manager with everything the relay, the peers, the browser and
\* the user can make happen to it.
NextConference ==
    \/ \E b \in ConfIds : CanCreate(b) /\ OnShareStarted(b) /\ UNCHANGED <<regVars, charVars>>
    \/ OnShareEnded /\ UNCHANGED <<regVars, charVars>>
    \/ \E from \in ConfIds : \E type \in {"offer", "answer", "candidate"} :
          /\ nSig < MaxSig
          /\ peerConnections[from] # 0 \/ CanCreate(from)
          /\ OnSignal(from, type)
          /\ UNCHANGED <<regVars, charVars>>
    \/ \E i \in PcSlots : OperationSettles(i) /\ UNCHANGED <<regVars, charVars>>
    \/ \E i \in PcSlots : OnTrack(i) /\ UNCHANGED <<regVars, charVars>>
    \/ RunEffects /\ UNCHANGED <<regVars, charVars>>
    \/ timer # None /\ CanCreate(timer) /\ WatchdogFires /\ UNCHANGED <<regVars, charVars>>
    \/ remoteBroadcasterId # None /\ CanCreate(remoteBroadcasterId) /\ ForceReconnect
          /\ UNCHANGED <<regVars, charVars>>
    \/ \E supported \in BOOLEAN : StartSharing(supported) /\ UNCHANGED <<regVars, charVars>>
    \/ \E granted \in BOOLEAN : CaptureSettles(granted) /\ UNCHANGED <<regVars, charVars>>
    \/ StopSharing /\ UNCHANGED <<regVars, charVars>>

SpecConference == Init /\ [][NextConference]_vars

\* One peer's signals arriving at a client that neither shares nor views.
IcePeer == "p1"

NextIce ==
    \/ \E type \in {"offer", "answer", "candidate"} :
          /\ nSig < MaxIceSig
          /\ peerConnections[IcePeer] # 0 \/ CanCreate(IcePeer)
          /\ OnSignal(IcePeer, type)
          /\ UNCHANGED <<regVars, charVars>>
    \/ \E i \in PcSlots : OperationSettles(i) /\ UNCHANGED <<regVars, charVars>>

SpecIce == Init /\ [][NextIce]_vars

\* A step of the frame loop that is a call of the useFrame callback.
IsTick == frameDue /\ ~frameDue'

\* Frames that come faster than the emission interval, with the backward
\* key, and a chair at the avatar's feet that faces another way.
ThrottleHorizon == 105

ThrottleDts == {25, 26}

ChairEntry == 0

ChairSit == 500

ChairRot == 1000

NextThrottle ==
    \/ \E dt \in ThrottleDts :
          /\ now + dt <= Epoch + ThrottleHorizon
          /\ Advance(dt, FALSE, 0)
          /\ UNCHANGED <<regVars, confVars>>
    \/ \E dir \in {0, 1} : \E lag \in {0, 1} :
          /\ Tick([NoKeys EXCEPT !.dir = dir, !.lag = lag])
          /\ UNCHANGED <<regVars, confVars>>
    \/ /\ pendingInteraction = Null
       /\ ~isSitting
       /\ HandleChairInteract(ChairEntry, ChairSit, ChairRot)
       /\ UNCHANGED <<regVars, confVars>>

SpecThrottle == Init /\ [][NextThrottle]_vars

\* Frames around the jump cooldown, with the jump and run keys, a body that
\* rises, rests or falls, and collisions.
JumpHorizon == 1010

JumpDts == {250, 251}

JumpVys == {-3000, 0, 3000}

NextJump ==
    \/ \E dt \in JumpDts : \E vyNew \in JumpVys :
          /\ now + dt <= Epoch + JumpHorizon
          /\ Advance(dt, FALSE, vyNew)
          /\ UNCHANGED <<regVars, confVars>>
    \/ \E jump \in BOOLEAN : \E run \in BOOLEAN :
          /\ Tick([NoKeys EXCEPT !.jump = jump, !.run = run])
          /\ UNCHANGED <<regVars, confVars>>
    \/ ~frameDue /\ OnCollisionEnter /\ UNCHANGED <<regVars, confVars>>
    \/ \E d \in landTimers : LandingTimeout(d) /\ UNCHANGED <<regVars, confVars>>

SpecJump == Init /\ [][NextJump]_vars

\* Click-to-move on a slow frame loop: frames in which the body may be
\* blocked, with nothing in the whiskers, the backward key, and clicks on the
\* floor when no marker is shown.
NavHorizon == 2700

NavDts == {500, 600}

NavPoints == {1750, 3500}

NextNav ==
    \/ \E dt \in NavDts : \E blocked \in BOOLEAN :
          /\ now + dt <= Epoch + NavHorizon
          /\ Advance(dt, blocked, 0)
          /\ UNCHANGED <<regVars, confVars>>
    \/ \E dir \in {0, 1} :
          /\ Tick([NoKeys EXCEPT !.dir = dir])
          /\ UNCHANGED <<regVars, confVars>>
    \/ \E point \in NavPoints :
          /\ targetLocation = Null
          /\ HandleFloorClick(point)
          /\ UNCHANGED <<regVars, confVars>>

SpecNav == Init /\ [][NextNav]_vars

\* Walking, jumping and landing with a click on the floor ahead and a chair at
\* the avatar's feet: the keys, a body that falls or rests, collisions and
\* the landing lock's timeout.
LocoHorizon == 800

LocoDts == {200}

LocoVys == {-3000, -2000, 0}

LocoPoint == 2000

NextLocomotion ==
    \/ \E dt \in LocoDts : \E vyNew \in LocoVys :
          /\ now + dt <= Epoch + LocoHorizon
          /\ Advance(dt, FALSE, vyNew)
          /\ UNCHANGED <<regVars, confVars>>
    \/ \E dir \in {0, 1} : \E jump \in BOOLEAN : \E run \in BOOLEAN :
          /\ Tick([NoKeys EXCEPT !.dir = dir, !.jump = jump, !.run = run])
          /\ UNCHANGED <<regVars, confVars>>
    \/ ~frameDue /\ OnCollisionEnter /\ UNCHANGED <<regVars, confVars>>
    \/ \E d \in landTimers : LandingTimeout(d) /\ UNCHANGED <<regVars, confVars>>
    \/ /\ targetLocation = Null
       /\ HandleFloorClick(LocoPoint)
       /\ UNCHANGED <<regVars, confVars>>
    \/ /\ targetLocation = Null
       /\ ~isSitting
       /\ HandleChairInteract(ChairEntry, ChairSit, ChairRot)
       /\ UNCHANGED <<regVars, confVars>>

SpecLocomotion == Init /\ [][NextLocomotion]_vars

\* Clicks on the floor at the avatar's feet, standing or walking, with the
\* backward key.
ArriveHorizon == 500

ArriveDts == {100, 125}

NextArrive ==
    \/ \E dt \in ArriveDts :
          /\ now + dt <= Epoch + ArriveHorizon
          /\ Advance(dt, FALSE, 0)
          /\ UNCHANGED <<regVars, confVars>>
    \/ \E dir \in {0, 1} :
          /\ Tick([NoKeys EXCEPT !.dir = dir])
          /\ UNCHANGED <<regVars, confVars>>
    \/ /\ targetLocation = Null
       /\ HandleFloorClick(pos)
       /\ UNCHANGED <<regVars, confVars>>

SpecArrive == Init /\ [][NextArrive]_vars

\* Chat messages arriving one after the other.
MaxChat == 110

NextChat ==
    \/ nChat < MaxChat /\ OnChat(nChat + 1) /\ UNCHANGED relayVars

SpecChat == Init /\ [][NextChat]_vars

\* The relay with this client and the other participants: connections, joins,
\* moves and disconnects in any order, and the client handling what it is sent.
MaxInbox == 2

RelayMoves == {[x |-> 1], [x |-> 1, animation |-> 1]}

NextRelay ==
    \/ \E id \in AllIds : SrvConnection(id) /\ UNCHANGED <<confVars, charVars>>
    \/ \E id \in AllIds :
          /\ Len(inbox) < MaxInbox
          /\ SrvJoin(id, 1)
          /\ UNCHANGED <<confVars, charVars>>
    \/ \E id \in RemoteIds : \E data \in RelayMoves :
          /\ Len(inbox) < MaxInbox
          /\ SrvMove(id, data)
          /\ UNCHANGED <<confVars, charVars>>
    \/ \E id \in RemoteIds : SrvDisconnect(id) /\ UNCHANGED <<confVars, charVars>>
    \/ Deliver

SpecRelay == Init /\ [][NextRelay]_vars

\* A client that joins while the others start and stop sharing: the relay's
\* share events on this client's connection, the conference screen mounting
\* when its assets have loaded, and the sessions' operations settling.
Sharers == ConfIds

NextJoin ==
    \/ \E id \in Sharers \cup {SelfId} : SrvConnection(id) /\ UNCHANGED <<confVars, charVars>>
    \/ \E id \in Sharers :
          /\ Len(inbox) < MaxInbox
          /\ SrvStartShare(id)
          /\ UNCHANGED <<confVars, charVars>>
    \/ \E id \in Sharers :
          /\ Len(inbox) < MaxInbox
          /\ id = broadcasterId
          /\ SrvStopShare(id)
          /\ UNCHANGED <<confVars, charVars>>
    \/ \E id \in Sharers : SrvDisconnect(id) /\ UNCHANGED <<confVars, charVars>>
    \/ MountConferenceScreen
    \/ Deliver
    \/ DeliverShare
    \/ \E i \in PcSlots : OperationSettles(i) /\ UNCHANGED <<regVars, charVars>>

SpecJoin == Init /\ [][NextJoin]_vars

\* This client and another participant sharing their screens through the
\* relay.  The other participant starts only when nobody shares and nothing
\* about sharing is on its way; the relay receives what this client emits as
\* soon as it is emitted.
NobodyShares ==
    /\ broadcasterId = None
    /\ broadcasters = {}
    /\ ~isBroadcaster
    /\ ~capturePending
    /\ \A k \in 1..Len(inbox) : inbox[k].type \notin {"share-started", "share-ended"}

NextShare ==
    \/ \E id \in Sharers \cup {SelfId} : SrvConnection(id) /\ UNCHANGED <<confVars, charVars>>
    \/ MountConferenceScreen
    \/ \E id \in Sharers :
          /\ NobodyShares
          /\ SrvStartShare(id)
          /\ UNCHANGED <<confVars, charVars>>
    \/ \E id \in Sharers :
          /\ id \in broadcasters
          /\ Len(inbox) < MaxInbox
          /\ SrvStopShare(id)
          /\ UNCHANGED <<confVars, charVars>>
    \/ \E supported \in BOOLEAN :
          /\ listening
          /\ SelfId \in DOMAIN srvPlayers
          /\ StartSharing(supported)
          /\ UNCHANGED <<regVars, charVars>>
    \/ \E granted \in BOOLEAN :
          /\ CaptureSettles(granted)
          /\ IF granted THEN SrvStartShare(SelfId) ELSE UNCHANGED regVars
          /\ UNCHANGED charVars
    \/ StopSharing /\ SrvStopShare(SelfId) /\ UNCHANGED charVars
    \/ Deliver
    \/ DeliverShare

SpecShare == Init /\ [][NextShare]_vars

\* The session manager of a client that does not share its own screen: the
\* relay's events, the peers' signals, the browser's operations, the effects,
\* the watchdog and the reconnect button.
NextViewer ==
    \/ \E b \in ConfIds : CanCreate(b) /\ OnShareStarted(b) /\ UNCHANGED <<regVars, charVars>>
    \/ OnShareEnded /\ UNCHANGED <<regVars, charVars>>
    \/ \E from \in ConfIds : \E type \in {"offer", "answer", "candidate"} :
          /\ nSig < MaxSig
          /\ peerConnections[from] # 0 \/ CanCreate(from)
          /\ OnSignal(from, type)
          /\ UNCHANGED <<regVars, charVars>>
    \/ \E i \in PcSlots : OperationSettles(i) /\ UNCHANGED <<regVars, charVars>>
    \/ \E i \in PcSlots : OnTrack(i) /\ UNCHANGED <<regVars, charVars>>
    \/ RunEffects /\ UNCHANGED <<regVars, charVars>>
    \/ timer # None /\ CanCreate(timer) /\ WatchdogFires /\ UNCHANGED <<regVars, charVars>>
    \/ remoteBroadcasterId # None /\ CanCreate(remoteBroadcasterId) /\ ForceReconnect
          /\ UNCHANGED <<regVars, charVars>>

SpecViewer == Init /\ [][NextViewer]_vars

\* An avatar that walks and jumps over ground that may end under it: the
\* downward ray of a frame hits the surface the avatar stands on, or nothing.
LedgeHorizon == 1000
LedgeDts == {250}

NextLedge ==
    \/ \E dt \in LedgeDts : \E vyNew \in LocoVys :
          /\ now + dt <= Epoch + LedgeHorizon
          /\ Advance(dt, FALSE, vyNew)
          /\ UNCHANGED <<regVars, confVars>>
    \/ \E dir \in {0, 1} : \E jump \in BOOLEAN : \E probe \in {ProbeStanding, ProbeMiss} :
          /\ Tick([NoKeys EXCEPT !.dir = dir, !.jump = jump, !.probe = probe])
          /\ UNCHANGED <<regVars, confVars>>
    \/ ~frameDue /\ OnCollisionEnter /\ UNCHANGED <<regVars, confVars>>
    \/ \E d \in landTimers : LandingTimeout(d) /\ UNCHANGED <<regVars, confVars>>

SpecLedge == Init /\ [][NextLedge]_vars

\* The signals of one sitting at a broadcaster.
MaxOfferSig == 2

\* A client that shares its screen while peers signal it: the sharing controls,
\* the signals and the share-ended notice.
NextBroadcaster ==
    \/ \E supported \in BOOLEAN : StartSharing(supported) /\ UNCHANGED <<regVars, charVars>>
    \/ \E granted \in BOOLEAN : CaptureSettles(granted) /\ UNCHANGED <<regVars, charVars>>
    \/ StopSharing /\ UNCHANGED <<regVars, charVars>>
    \/ OnShareEnded /\ UNCHANGED <<regVars, charVars>>
    \/ \E from \in ConfIds : \E type \in {"offer", "answer", "candidate"} :
          /\ nSig < MaxOfferSig
          /\ peerConnections[from] # 0 \/ CanCreate(from)
          /\ OnSignal(from, type)
          /\ UNCHANGED <<regVars, charVars>>
    \/ \E i \in PcSlots : OperationSettles(i) /\ UNCHANGED <<regVars, charVars>>
    \/ RunEffects /\ UNCHANGED <<regVars, charVars>>

SpecBroadcaster == Init /\ [][NextBroadcaster]_vars

\* A chair across the room on a slow frame loop: frames in which the body may
\* be blocked, the backward key, clicks on the chair and on the floor.
SeatHorizon == 2700

SeatDts == {500, 600}

SeatEntry == 1750

SeatSit == 2250

SeatFloor == 3500

NextSeat ==
    \/ \E dt \in SeatDts : \E blocked \in BOOLEAN :
          /\ now + dt <= Epoch + SeatHorizon
          /\ Advance(dt, blocked, 0)
          /\ UNCHANGED <<regVars, confVars>>
    \/ \E dir \in {0, 1} :
          /\ Tick([NoKeys EXCEPT !.dir = dir])
          /\ UNCHANGED <<regVars, confVars>>
    \/ /\ ~isSitting
       /\ pendingInteraction = Null \/ currentNavTarget = Null
       /\ HandleChairInteract(SeatEntry, SeatSit, ChairRot)
       /\ UNCHANGED <<regVars, confVars>>
    \/ /\ targetLocation = Null \/ pendingInteraction # Null
       /\ HandleFloorClick(SeatFloor)
       /\ UNCHANGED <<regVars, confVars>>

SpecSeat == Init /\ [][NextSeat]_vars

\* The session manager with React's commits and effect runs as separate steps,
\* and the broadcaster's answers as the only signals.
NextStatus ==
    \/ \E b \in ConfIds : CanCreate(b) /\ OnShareStarted(b) /\ UNCHANGED <<regVars, charVars>>
    \/ OnShareEnded /\ UNCHANGED <<regVars, charVars>>
    \/ \E from \in ConfIds : \E type \in {"answer"} :
          /\ nSig < MaxSig
          /\ peerConnections[from] # 0 \/ CanCreate(from)
          /\ OnSignal(from, type)
          /\ UNCHANGED <<regVars, charVars>>
    \/ \E i \in PcSlots : OperationSettles(i) /\ UNCHANGED <<regVars, charVars>>
    \/ \E i \in PcSlots : OnTrack(i) /\ UNCHANGED <<regVars, charVars>>
    \/ Commit /\ UNCHANGED <<regVars, charVars>>
    \/ FlushPassiveEffects /\ UNCHANGED <<regVars, charVars>>
    \/ timer # None /\ CanCreate(timer) /\ WatchdogFires /\ UNCHANGED <<regVars, charVars>>
    \/ \E supported \in BOOLEAN : StartSharing(supported) /\ UNCHANGED <<regVars, charVars>>
    \/ \E granted \in BOOLEAN : CaptureSettles(granted) /\ UNCHANGED <<regVars, charVars>>
    \/ StopSharing /\ UNCHANGED <<regVars, charVars>>

SpecStatus == Init /\ [][NextStatus]_vars

\* Click-to-move toward a wall, with frames that never stop coming.  The
\* clock is kept relative to the present: instead of moving now forward by
\* dt, a frame moves every stored time stamp back by dt, no further than
\* StampAge before now; useFrame compares stamps with now only against
\* thresholds below StampAge.
StampAge == Epoch

Older(stamp, dt) == IF stamp - dt < now - StampAge THEN now - StampAge ELSE stamp - dt

AdvanceRelative(dt, blocked, vyNew) ==
    /\ ~frameDue
    /\ delta' = dt
    /\ frameDue' = TRUE
    /\ pos' = IF blocked THEN pos ELSE pos + (vz * dt) \div 1000
    /\ vy' = vyNew
    /\ lastUpdateRef' = Older(lastUpdateRef, dt)
    /\ jumpCooldown' = Older(jumpCooldown, dt)
    /\ landTimers' = {Older(d, dt) : d \in landTimers}
    /\ lastEmit' = IF lastEmit = Null THEN Null
                   ELSE <<[lastEmit[1] EXCEPT !.at = Older(@, dt)]>>
    /\ UNCHANGED <<now, vz, animation, isOnFloor, wasOnFloor, isLanding, jumpType,
                   currentRotation, targetRotation, currentNavTarget, lastPosition,
                   stuckTime, expVars, tickLog, camVars>>

\* A wall across the avatar's path, the points clicked before and behind it,
\* and the frame time.
WallZ == 3100

LiveDt == 50

LivePoints == {1000, 5000}

\* The forward whisker (length 2.0, weight 1.0) of an avatar at p heading for
\* target: a hit at toi > 0.55 adds the repulsion -rawDir * (2.0 - toi) / 2.0 * 5
\* to rawDir, and the sum normalised is rawDir, nothing or -rawDir.
WhiskerSteer(p, target) ==
    LET toi == WallZ - p
        hit == target > p /\ toi >= 0 /\ toi <= 2000 /\ toi > 550
        repulsion == ((2000 - toi) * 5 * 1000) \div 2000
    IN IF ~hit THEN 1
       ELSE IF repulsion < 1000 THEN 1 ELSE IF repulsion = 1000 THEN 0 ELSE -1

\* The next frame comes LiveDt later, the body blocked or not.
LiveFrame ==
    /\ \E blocked \in BOOLEAN : AdvanceRelative(LiveDt, blocked, 0)
    /\ UNCHANGED <<regVars, confVars>>

\* The frame loop calls useFrame with no key down.
LiveTick ==
    /\ Tick([NoKeys EXCEPT !.steer = IF currentNavTarget = Null THEN 1
                                     ELSE WhiskerSteer(pos, currentNavTarget[1])])
    /\ UNCHANGED <<regVars, confVars>>

NextNavLive ==
    \/ LiveFrame
    \/ LiveTick
    \/ \E point \in LivePoints :
          /\ targetLocation = Null
          /\ pos = 0
          /\ HandleFloorClick(point)
          /\ UNCHANGED <<regVars, confVars>>

\* requestAnimationFrame keeps the frame loop running: a frame that is due is
\* run, and the next one comes.
SpecNavLive ==
    /\ Init
    /\ [][NextNavLive]_vars
    /\ WF_vars(LiveFrame)
    /\ WF_vars(LiveTick)

\* The mouse over the canvas: the left and right buttons, and moves by a few
\* pixels or across the screen.
MaxMouse == 4

MouseButtons == {0, 2}

MouseMoves == {-400, -10, 10, 400}

NextCamera ==
    \/ \E button \in MouseButtons : HandleMouseDown(button) /\ UNCHANGED <<regVars, confVars>>
    \/ \E button \in MouseButtons : HandleMouseUp(button) /\ UNCHANGED <<regVars, confVars>>
    \/ \E mx \in MouseMoves : \E my \in MouseMoves :
          /\ nMouse < MaxMouse
          /\ HandleMouseMove(mx, my)
          /\ UNCHANGED <<regVars, confVars>>

SpecCamera == Init /\ [][NextCamera]_vars

\* A viewer whose broadcaster answers late: share-started, the broadcaster's
\* answers and candidates, the watchdog and the reconnect button.
MaxRetrySig == 2

NextRetry ==
    \/ \E b \in ConfIds : CanCreate(b) /\ OnShareStarted(b) /\ UNCHANGED <<regVars, charVars>>
    \/ \E from \in ConfIds : \E type \in {"answer", "candidate"} :
          /\ nSig < MaxRetrySig
          /\ peerConnections[from] # 0
          /\ OnSignal(from, type)
          /\ UNCHANGED <<regVars, charVars>>
    \/ \E i \in PcSlots : OperationSettles(i) /\ UNCHANGED <<regVars, charVars>>
    \/ RunEffects /\ UNCHANGED <<regVars, charVars>>
    \/ timer # None /\ CanCreate(timer) /\ WatchdogFires /\ UNCHANGED <<regVars, charVars>>
    \/ remoteBroadcasterId # None /\ CanCreate(remoteBroadcasterId) /\ ForceReconnect
          /\ UNCHANGED <<regVars, charVars>>

SpecRetry == Init /\ [][NextRetry]_vars

\* Bunny hopping: the jump key held down over frames in which the body falls
\* fast, with collisions and the landing lock's timeout.
LandHorizon == 2600

LandDt == 200

LandVy == -3000

NextLanding ==
    \/ /\ now + LandDt <= Epoch + LandHorizon
       /\ Advance(LandDt, FALSE, LandVy)
       /\ UNCHANGED <<regVars, confVars>>
    \/ Tick([NoKeys EXCEPT !.jump = TRUE]) /\ UNCHANGED <<regVars, confVars>>
    \/ ~frameDue /\ OnCollisionEnter /\ UNCHANGED <<regVars, confVars>>
    \/ \E d \in landTimers : LandingTimeout(d) /\ UNCHANGED <<regVars, confVars>>

SpecLanding == Init /\ [][NextLanding]_vars

\* The relay with participants that connect, start and stop sharing and
\* disconnect in any order, whoever is the recorded broadcaster, while this
\* client handles what the relay sends it.
NextBroadcastRelay ==
    \/ \E id \in Sharers \cup {SelfId} : SrvConnection(id) /\ UNCHANGED <<confVars, charVars>>
    \/ \E id \in Sharers :
          /\ Len(inbox) < MaxInbox
          /\ SrvStartShare(id)
          /\ UNCHANGED <<confVars, charVars>>
    \/ \E id \in Sharers :
          /\ Len(inbox) < MaxInbox
          /\ SrvStopShare(id)
          /\ UNCHANGED <<confVars, charVars>>
    \/ \E id \in Sharers : SrvDisconnect(id) /\ UNCHANGED <<confVars, charVars>>
    \/ MountConferenceScreen
    \/ Deliver
    \/ DeliverShare
    \/ \E i \in PcSlots : OperationSettles(i) /\ UNCHANGED <<regVars, charVars>>

SpecBroadcastRelay == Init /\ [][NextBroadcastRelay]_vars

(***************************************************************************)
(* Claims                                                                  *)
(***************************************************************************)

\* C3: a 'moved' event whose identifier is not in the remote registry leaves
\* the registry unchanged (no entry is created for it).
C3_UnknownMovedIsNoOp ==
    [][(regEvent'.type = "playerMoved" /\ regEvent'.id \notin DOMAIN players)
          => players' = players]_vars

\* C1: the candidates that were buffered for a peer are applied to a connection
\* in their arrival order and none of them twice.
C1_BufferedAppliedOnceInOrder ==
    \A i \in PcSlots :
        \A a, b \in 1..Len(pcs[i].applied) :
            (a < b /\ pcs[i].applied[a].q /\ pcs[i].applied[b].q)
                => pcs[i].applied[a].c < pcs[i].applied[b].c

\* C2: for every identifier at most one connection is open, and it is the
\* registered one: a replaced connection was closed before the new one was
\* constructed and registered.
C2_OneOpenPerId ==
    \A i \in PcSlots :
        pcs[i].open => peerConnections[pcs[i].target] = i

\* A session was created for an identifier that already had one.
C2_Witness ==
    /\ lastCreate = "replaced"
    /\ \E id \in ConfIds : peerConnections[id] # 0 /\ pcs[peerConnections[id]].open

\* C4: once stopSharing or the share-ended handler has run, the client holds
\* no peer connection and no queued candidate for any identifier, and every
\* connection that was open is closed.
C4_TeardownLeavesNothing ==
    [][(OnShareEnded \/ StopSharing)
          => /\ peerConnections' = NoPeers
             /\ iceCandidateQueue' = NoQueues
             /\ \A i \in PcSlots : ~pcs'[i].open]_vars

\* A teardown ran while a closed connection still had a candidate in flight.
C4_Witness ==
    /\ peerConnections = NoPeers
    /\ iceCandidateQueue = NoQueues
    /\ \E i \in PcSlots : ~pcs[i].open /\ chain[i] # <<>>

\* C5: the watchdog's callback runs only while the viewer knows a broadcaster
\* and shows no stream: not after a track set the stream, not after share-ended.
C5_WatchdogOnlyWhileConnecting ==
    [][WatchdogFires => (stream = NoStream /\ remoteBroadcasterId # None)]_vars

\* C6: while the viewer knows a broadcaster, shows no stream and its effects
\* have run, a watchdog timeout is pending.
C6_WatchdogPendingWhileConnecting ==
    (remoteBroadcasterId # None /\ stream = NoStream /\ effectDeps = CurDeps)
        => timer # None

\* C7: on both the sitting and the normal path, an emission comes at least the
\* fixed interval (50 ms) after the emission before it, and it carries the
\* position, the facing and the animation of the tick that emits it.
C7_EmissionsThrottled ==
    [][(IsTick /\ tickLog'.emitted)
          => /\ lastEmit # Null => lastEmit'[1].at - lastEmit[1].at >= UpdateInterval
             /\ lastEmit'[1].at = now
             /\ lastEmit'[1].z = pos'
             /\ lastEmit'[1].rotation = currentRotation'
             /\ lastEmit'[1].animation =
                    IF isSitting /\ sitPose # Null THEN "Sitting" ELSE animation']_vars

\* A sitting tick has emitted, some time after an earlier emission, and a tick
\* before it was refused the emission.
C7_Witness ==
    /\ ~frameDue
    /\ tickLog.emitted
    /\ isSitting
    /\ lastEmit # Null
    /\ lastEmit[1].animation = "Sitting"
    /\ lastEmit[1].at > Epoch + UpdateInterval

\* C8: a tick jumps only when more than the cooldown (500 ms) has passed since
\* the last jump; a tick on which jump is requested within the cooldown leaves
\* the vertical velocity and the cooldown's start as they were.
C8_JumpCooldown ==
    [][IsTick
          => /\ tickLog'.jumped
                 => /\ now - jumpCooldown > JumpCooldownMs
                    /\ vy' = jumpForce
                    /\ jumpCooldown' = now
             /\ (tickLog'.input.jump /\ now - jumpCooldown <= JumpCooldownMs)
                 => /\ ~tickLog'.jumped
                    /\ vy' = vy
                    /\ jumpCooldown' = jumpCooldown]_vars

\* Jump was requested on the floor within the cooldown of an earlier jump, and
\* the tick did not jump.
C8_Witness ==
    /\ ~frameDue
    /\ tickLog.input.jump
    /\ ~tickLog.jumped
    /\ isOnFloor
    /\ ~isLanding
    /\ jumpCooldown >= Epoch
    /\ now - jumpCooldown <= JumpCooldownMs

\* C9: a navigating tick with no manual input that finds the avatar stuck for
\* 2.0 s with more than 0.2 left to go clears the target and fires the
\* target-reached callback, whatever the distance left.
C9_StuckAbandons ==
    [][(/\ IsTick
        /\ tickLog'.input.dir = 0
        /\ ~(isSitting /\ sitPose # Null)
        /\ ~isLanding'
        /\ currentNavTarget # Null
        /\ Abs(pos - lastPosition) < StuckMove
        /\ stuckTime + delta >= StuckLimit
        /\ Abs(currentNavTarget[1] - pos) > ArriveDistance)
          => (currentNavTarget' = Null /\ tickLog'.reached)]_vars

\* C10: a tick with no manual input clears the navigation target exactly when
\* it fires the target-reached callback: a navigation that completes fires it,
\* and it is fired for nothing else.
C10_ReachedOncePerCompletion ==
    [][(IsTick /\ tickLog'.input.dir = 0)
          => ((currentNavTarget # Null /\ currentNavTarget' = Null)
                  <=> tickLog'.reached)]_vars

\* C11: a tick on which a directional key is active leaves no navigation
\* target set, in any locomotion state, the landing lock included.
C11_ManualInputClearsTarget ==
    [][(IsTick /\ tickLog'.input.dir # 0) => currentNavTarget' = Null]_vars

\* C12: with no manual input, the first tick that processes a navigation target
\* equal to the avatar's position reports target-reached, clears the target and
\* sets a zero horizontal velocity.
C12_TargetAtFeetReachedAtOnce ==
    [][(/\ IsTick
        /\ tickLog'.input.dir = 0
        /\ ~(isSitting /\ sitPose # Null)
        /\ ~isLanding'
        /\ currentNavTarget = <<pos>>)
          => (tickLog'.reached /\ currentNavTarget' = Null /\ vz' = 0)]_vars

\* The first tick of all has processed a click at the feet of the avatar, which
\* had not moved yet.
C12_Witness ==
    /\ ~frameDue
    /\ now <= Epoch + 125
    /\ tickLog.reached
    /\ tickLog.input.dir = 0
    /\ targetLocation = Null
    /\ currentNavTarget = Null
    /\ pos = 0
    /\ vz = 0

\* C13 as stated: a tick with the avatar on the floor, no jump input and a
\* directional input leaves the animation Walking (run flag off) or Run (run
\* flag on).
C13_GroundedManualWalksOrRuns ==
    [][(IsTick /\ isOnFloor /\ ~tickLog'.input.jump /\ tickLog'.input.dir # 0)
          => animation' = IF tickLog'.input.run THEN "Run" ELSE "Walking"]_vars

\* C13, amended: such a tick leaves the animation Walking or Run when the
\* avatar is neither sitting nor in a landing lock; in a landing lock it leaves
\* land, and the tick that stands up from a seat leaves the animation as it was.
\* Outside a seat it never leaves an airborne label.
C13_GroundedManualWalksOrRunsUnlessLocked ==
    [][(IsTick /\ isOnFloor /\ ~tickLog'.input.jump /\ tickLog'.input.dir # 0)
          => /\ animation' \notin {"Jump", "RunJump"} \/ tickLog'.stood
             /\ IF isSitting /\ sitPose # Null THEN animation' = animation
                ELSE IF isLanding' THEN animation' = "land"
                ELSE animation' = IF tickLog'.input.run THEN "Run" ELSE "Walking"]_vars

\* A tick with the run flag and a directional key has left Run on the floor,
\* after the avatar had jumped and come down.
C13_Witness ==
    /\ ~frameDue
    /\ tickLog.input.dir # 0
    /\ tickLog.input.run
    /\ ~tickLog.input.jump
    /\ ~tickLog.jumped
    /\ isOnFloor
    /\ ~isLanding
    /\ ~isSitting
    /\ jumpCooldown >= Epoch
    /\ animation = "Run"

\* C14: the facing angle, and the facing of the last snapshot given to
\* onUpdate, lie within (-pi, pi].
C14_FacingWithinHalfTurn ==
    /\ -Pi < currentRotation /\ currentRotation <= Pi
    /\ lastEmit # Null => (-Pi < lastEmit[1].rotation /\ lastEmit[1].rotation <= Pi)

\* C15: after k chat arrivals the log holds the most recent min(k, 50)
\* messages, oldest first; its length never exceeds 50.
C15_ChatKeepsLastFifty ==
    /\ Len(chatMessages) = IF nChat < 50 THEN nChat ELSE 50
    /\ \A i \in 1..Len(chatMessages) : chatMessages[i] = nChat - Len(chatMessages) + i

\* Fifty-five messages have arrived: the log holds the 6th to the 55th.
C15_Witness ==
    /\ nChat = 55
    /\ Len(chatMessages) = 50
    /\ chatMessages[1] = 6
    /\ chatMessages[50] = 55

\* C16: a 'moved' event for a known identifier sets the fields it carries to
\* the values it carries, and leaves the other fields of that snapshot and the
\* snapshots of the other identifiers as they were.
C16_MovedMergesCarriedFields ==
    [][(regEvent'.type = "playerMoved" /\ regEvent'.known)
          => LET id == regEvent'.id
                 player == regEvent'.player
             IN /\ DOMAIN players' = DOMAIN players
                /\ DOMAIN players'[id] = (DOMAIN players[id]) \cup (DOMAIN player)
                /\ \A f \in DOMAIN player : players'[id][f] = player[f]
                /\ \A f \in (DOMAIN players[id]) \ (DOMAIN player) :
                       players'[id][f] = players[id][f]
                /\ \A o \in (DOMAIN players) \ {id} : players'[o] = players[o]]_vars

\* A 'moved' event that carried only x was merged into a snapshot held with
\* another one: the name it had is still there and differs from the new x.
C16_Witness ==
    /\ regEvent.type = "playerMoved"
    /\ regEvent.known
    /\ DOMAIN regEvent.player = {"x"}
    /\ DOMAIN players = RemoteIds
    /\ DOMAIN players[regEvent.id] = Fields
    /\ players[regEvent.id]["x"] = regEvent.player["x"]
    /\ players[regEvent.id]["name"] # players[regEvent.id]["x"]

\* C17: a 'left' event removes the identifier's snapshot and leaves the other
\* snapshots as they were; for an identifier that is absent it leaves the
\* registry as it was.
C17_LeftRemovesOnlyThatSnapshot ==
    [][regEvent'.type = "playerLeft"
          => /\ DOMAIN players' = (DOMAIN players) \ {regEvent'.id}
             /\ \A o \in DOMAIN players' : players'[o] = players[o]
             /\ ~regEvent'.known => players' = players]_vars

\* A 'left' event has removed a snapshot that was held, next to another one
\* that is still held.
C17_Witness ==
    /\ regEvent.type = "playerLeft"
    /\ regEvent.known
    /\ DOMAIN players = RemoteIds \ {regEvent.id}

\* C18: with the relay's events delivered in order, an identifier whose 'left'
\* notification this client has handled is absent from its registry, for good;
\* and every identifier in the registry is one the relay holds as connected or
\* one whose 'left' notification is on its way.
C18_NoSnapshotAfterLeft ==
    /\ \A id \in leftSeen : id \notin DOMAIN players
    /\ \A id \in DOMAIN players :
          \/ id \in DOMAIN srvPlayers
          \/ \E i \in 1..Len(inbox) : inbox[i] = [type |-> "playerLeft", id |-> id]

\* A participant that had joined and moved has left and this client has handled
\* all of it, while it still holds the snapshot of another participant.
C18_Witness ==
    /\ inbox = <<>>
    /\ "p1" \in leftSeen
    /\ regEvent.type = "playerLeft"
    /\ regEvent.known
    /\ DOMAIN players = {"p2"}

\* C19: the candidates of a peer are applied to its connection in the order
\* their signals arrived, the queued and the directly applied ones alike.
C19_CandidatesAppliedInArrivalOrder ==
    \A i \in PcSlots :
        \A a, b \in 1..Len(pcs[i].applied) :
            a < b => pcs[i].applied[a].c < pcs[i].applied[b].c

\* The share events still on their way to this client.
SharePending ==
    \E k \in 1..Len(inbox) : inbox[k].type \in {"share-started", "share-ended"}

\* C20: a connected client whose conference screen is up, and which has
\* received everything the relay sent it about sharing, has an open initiator
\* session to the participant the relay holds as broadcaster, with its offer
\* on the way or made; no joining client is left without one.
C20_JoinerHasSession ==
    \A b \in Sharers :
        (/\ broadcasterId = b
         /\ SelfId \in DOMAIN srvPlayers
         /\ listening
         /\ ~SharePending)
        => /\ peerConnections[b] # 0
           /\ pcs[peerConnections[b]].open
           /\ pcs[peerConnections[b]].initiator
           /\ \/ pcs[peerConnections[b]].sig = "have-local-offer"
              \/ \E k \in 1..Len(chain[peerConnections[b]]) :
                    chain[peerConnections[b]][k].op \in {"createOffer", "setLocalOffer"}

\* C21: a tick of a seated avatar with no directional and no jump key writes
\* zero velocity and the seat's position to the body and leaves it seated; a
\* tick of a seated avatar with a directional or the jump key calls the
\* stop-sitting callback, so the avatar is no longer seated after it, and
\* writes nothing to the body.
C21_SeatLockedUntilInput ==
    [][(IsTick /\ isSitting /\ sitPose # Null) =>
         IF tickLog'.input.dir = 0 /\ ~tickLog'.input.jump
         THEN /\ vz' = 0
              /\ vy' = 0
              /\ pos' = sitPose[1].position
              /\ isSitting'
              /\ ~tickLog'.stood
         ELSE /\ tickLog'.stood
              /\ ~isSitting'
              /\ sitPose' = Null
              /\ <<pos, vz, vy>>' = <<pos, vz, vy>>]_vars

\* A seated avatar that the jump key alone made stand up, on the first tick
\* after it sat down: it is still at the entry point, not on the seat.
C21_Witness ==
    /\ ~frameDue
    /\ tickLog.stood
    /\ tickLog.input.jump
    /\ tickLog.input.dir = 0
    /\ ~isSitting
    /\ pos = ChairEntry
    /\ pos # ChairSit

\* C22: a share attempt that finds no capture capability, or whose capture
\* request is rejected, changes nothing: the client does not become
\* broadcaster, no local stream is stored or shown, no start-share is
\* emitted, and the peer sessions, their pending operations and the
\* candidate queues are as they were.
C22_FailedCaptureChangesNothing ==
    [][(StartSharing(FALSE) \/ CaptureSettles(FALSE)) =>
         /\ UNCHANGED <<isBroadcaster, localStreamRef, stream, videoSrc, remoteBroadcasterId,
                        peerConnections, pcs, chain, iceCandidateQueue>>
         /\ shareLog' # "start-share"]_vars

\* A capture request was rejected while a peer session existed, and the
\* client is no broadcaster.
C22_Witness ==
    /\ shareLog = "rejected"
    /\ ~capturePending
    /\ ~isBroadcaster
    /\ ~localStreamRef
    /\ \E id \in ConfIds : peerConnections[id] # 0

\* C23: at most one participant is in the broadcaster role at any time: this
\* client's isBroadcaster and the isBroadcaster of the other participants'
\* clients are never set for two of them at once.  (The relay's record is one
\* field, broadcasterId, which holds one identifier or none.)
C23_OneBroadcaster ==
    Cardinality(broadcasters \cup (IF isBroadcaster THEN {SelfId} ELSE {})) <= 1

\* The names of the operations pending on a connection, oldest first.
OpNames(ops) == [k \in 1..Len(ops) |-> ops[k].op]

\* The offer creations pending on all connections.
OffersPending(ch) ==
    UNION {{<<i, k>> : k \in {n \in 1..Len(ch[i]) : ch[i][n].op = "createOffer"}} :
              i \in PcSlots}

C25_GroundedFromProbe ==
    [][(IsTick /\ ~(isSitting /\ sitPose # Null)) =>
         /\ wasOnFloor' = (tickLog'.input.probe < GroundThreshold)
         /\ tickLog'.input.probe >= GroundThreshold => ~tickLog'.jumped]_vars

\* C26: the landing lock starts only on a tick whose previous tick was
\* airborne, which is itself grounded, and whose vertical velocity is below
\* -2.0; a touchdown at -2.0 or above starts none.  At the end of every tick
\* on which the lock is in force the horizontal velocity written to the body
\* is zero and the animation is the landing clip, whatever keys are down and
\* whatever navigation target is set.
C26_LandingLock ==
    [][/\ (isLanding' /\ ~isLanding) =>
             /\ IsTick
             /\ ~wasOnFloor
             /\ isOnFloor
             /\ vy < LandingVelocity
       /\ (IsTick /\ ~wasOnFloor /\ isOnFloor /\ vy >= LandingVelocity /\ ~isLanding) =>
             ~isLanding'
       /\ (IsTick /\ isLanding' /\ ~(isSitting /\ sitPose # Null)) =>
             /\ vz' = 0
             /\ animation' = "land"
             /\ ~tickLog'.jumped]_vars

\* A landing lock in force after a tick with a directional key and the jump
\* key down and a navigation target set.
C26_Witness ==
    /\ ~frameDue
    /\ isLanding
    /\ tickLog.input.dir # 0
    /\ tickLog.input.jump
    /\ currentNavTarget # Null
    /\ vz = 0
    /\ animation = "land"

\* C27: a tick jumps only if the avatar is grounded and no landing lock is in
\* force or starts; the tick that jumps writes the jump impulse as vertical
\* velocity, leaves the avatar not grounded, and selects RunJump if the run
\* key is down and the horizontal velocity it writes is above 0.1, Jump
\* otherwise; a tick that does not jump writes the vertical velocity it read
\* (a sitting tick writes zero) and leaves the jump type and grounded alone.
C27_JumpOnlyFromGround ==
    [][/\ (IsTick /\ tickLog'.jumped) =>
             /\ isOnFloor
             /\ ~isLanding
             /\ ~isLanding'
             /\ vy' = jumpForce
             /\ ~isOnFloor'
             /\ jumpType' = IF tickLog'.input.run /\ Abs(vz') > MovingThreshold
                            THEN "RunJump" ELSE "Jump"
             /\ animation' = jumpType'
       /\ (IsTick /\ ~tickLog'.jumped) =>
             /\ vy' \in {vy, 0}
             /\ jumpType' = jumpType
             /\ isOnFloor' = isOnFloor]_vars

\* A jump with the run key down by an avatar that stands still: a Jump.
C27_Witness ==
    /\ ~frameDue
    /\ tickLog.jumped
    /\ tickLog.input.run
    /\ tickLog.input.dir = 0
    /\ vz = 0
    /\ vy = jumpForce
    /\ ~isOnFloor
    /\ jumpType = "Jump"

\* C28: after every tick that is not a sitting tick and leaves the avatar not
\* grounded, the animation is the jump type (Jump or RunJump), whatever keys
\* are down and whatever navigation target is set; the snapshot such a tick
\* emits carries the same label.
C28_AirborneShowsJumpType ==
    [][(IsTick /\ ~(isSitting /\ sitPose # Null) /\ ~isOnFloor') =>
         /\ animation' = jumpType'
         /\ jumpType' \in {"Jump", "RunJump"}
         /\ tickLog'.emitted => lastEmit'[1].animation = jumpType']_vars

\* An airborne avatar after a tick with a directional key and the run key
\* down that did not jump: the label is still the jump type.
C28_Witness ==
    /\ ~frameDue
    /\ ~isOnFloor
    /\ ~tickLog.jumped
    /\ tickLog.input.dir # 0
    /\ tickLog.input.run
    /\ animation = "Jump"
    /\ jumpType = "Jump"

\* The label of the highest condition that holds, in the order sitting,
\* landing lock, airborne, manual move, navigating, idle.
PriorityLabel(sit, land, air, type, manual, run, nav) ==
    IF sit THEN "Sitting"
    ELSE IF land THEN "land"
    ELSE IF air THEN type
    ELSE IF manual THEN (IF run THEN "Run" ELSE "Walking")
    ELSE IF nav THEN "Run"
    ELSE "Idle"

\* The label the priority chain gives a tick: the avatar is seated, locked,
\* airborne or navigating as the tick leaves it, and moved manually if a
\* directional key was down in it.
ChainLabel ==
    PriorityLabel(isSitting', isLanding', ~isOnFloor', jumpType',
                  tickLog'.input.dir # 0, tickLog'.input.run, currentNavTarget' # Null)

\* C29 as stated: after every tick the clip played is the one of the highest
\* condition that holds.
C29_LabelByPriority ==
    [][IsTick => AnimName(isSitting', animation') = ChainLabel]_vars

\* C29: after every tick, except the tick on which a key makes a seated
\* avatar stand up (it returns before a label is chosen), the clip played is
\* the one of the highest condition that holds, in the order sitting, landing
\* lock, airborne, manual move, navigating, idle; a landing lock and an
\* airborne avatar never hold together.
C29_LabelByPriorityUnlessStandingUp ==
    [][/\ (IsTick /\ ~tickLog'.stood) => AnimName(isSitting', animation') = ChainLabel
       /\ ~(isLanding' /\ ~isOnFloor')]_vars

\* A seated avatar after a tick with only the run key down: the animation
\* state says Idle, the clip played is Sitting.
C29_Witness ==
    /\ ~frameDue
    /\ isSitting
    /\ ~tickLog.stood
    /\ tickLog.input.run
    /\ pos = ChairSit
    /\ animation = "Idle"
    /\ AnimName(isSitting, animation) = "Sitting"

\* C30: a session for an identifier that had none is created only as an
\* initiator session (by the share-started handler) or by an offer signal;
\* an answer or a candidate from an identifier without a session creates none.
C30_SessionsOnlyFromStartOrOffer ==
    [][\A id \in ConfIds :
          (peerConnections[id] = 0 /\ peerConnections'[id] # 0) =>
              \/ pcs'[peerConnections'[id]].initiator
              \/ \E k \in 1..Len(chain'[peerConnections'[id]]) :
                    chain'[peerConnections'[id]][k].op = "setRemoteOffer"]_vars

\* The number of pending operations named name among ops.
CountOps(ops, name) == Cardinality({k \in 1..Len(ops) : ops[k].op = name})

C32_SitsOnlyAtEntryPoint ==
    [][(~isSitting /\ isSitting')
          => /\ pendingInteraction # Null
             /\ currentNavTarget # Null
             /\ Abs(currentNavTarget[1] - pos) <= ArriveDistance]_vars

\* C33: once React has committed the state and run its effects, the status is
\* Connecting only with a remote broadcaster known and no stream held,
\* Connected only with a stream held, and Idle whenever no broadcaster is
\* known and no stream is held.
C33_StatusFollowsSession ==
    (rendered = CurDeps /\ effectDeps = rendered)
      => /\ connectionStatus = "connecting"
              => (remoteBroadcasterId # None /\ stream = NoStream)
         /\ connectionStatus = "connected" => stream # NoStream
         /\ (remoteBroadcasterId = None /\ stream = NoStream)
              => connectionStatus = "idle"

\* C34: with no key down and the avatar not sitting, a navigation target that
\* is set is eventually cleared, whatever blocks or steers the avatar.
C34_NavigationEnds == (currentNavTarget # Null) ~> (currentNavTarget = Null)

\* C35: the polar angle lies strictly between 0 and pi/2 before and after
\* every mouse event; the orbit and polar angles change only on a mouse move
\* made while the right button is down; a mouse move made while no drag with
\* the right button is going on leaves both as they were.
C35_CameraAngles ==
    [][/\ cameraPolar > 0 /\ 2 * cameraPolar < Pi
       /\ cameraPolar' > 0 /\ 2 * cameraPolar' < Pi
       /\ (cameraOrbit' # cameraOrbit \/ cameraPolar' # cameraPolar)
            => (nMouse' = nMouse + 1 /\ 2 \in buttons /\ isDragging)
       /\ (nMouse' = nMouse + 1 /\ (2 \notin buttons \/ ~isDragging))
            => (cameraOrbit' = cameraOrbit /\ cameraPolar' = cameraPolar)]_vars

\* A drag with the right button has turned the camera and pushed the polar
\* angle down to its lower limit.
C35_Witness ==
    /\ cameraPolar = PolarMargin
    /\ cameraOrbit # 0
    /\ isDragging
    /\ nMouse > 0

\* C36: every candidate a connection was given out of the queue arrived after
\* that connection was constructed: none was queued for the session it replaced.
C36_QueueNotCarriedOver ==
    \A i \in PcSlots :
       pcs[i].open
         => \A k \in 1..Len(pcs[i].applied) :
               pcs[i].applied[k].q => pcs[i].applied[k].c > pcs[i].born

\* C37: a connection applies an answer only if that answer answers its own
\* offer: an answer that arrived before the connection had sent its offer, for
\* the offer of the connection it replaced, is never applied to it.
C37_AnswerMatchesOffer ==
    [][\A i \in PcSlots :
         (/\ OperationSettles(i)
          /\ Head(chain[i]).op = "setRemoteAnswer"
          /\ Accepts(i, Head(chain[i])))
            => ~pcs[i].stale]_vars

\* C38: a landing lock that starts leaves exactly one timeout pending, its
\* own, due 200 ms later; the lock ends only by that timeout, once it is due:
\* no timeout of an earlier landing is left to end it before.
C38_LockLastsItsDuration ==
    [][/\ (~isLanding /\ isLanding') => landTimers' = {now + LandingLock}
       /\ (isLanding /\ ~isLanding')
            => \E d \in landTimers : landTimers = {d} /\ now >= d /\ landTimers' = {}
       /\ isLanding => Cardinality(landTimers) = 1]_vars

\* A landing lock in force after a second jump: the first jump was made on the
\* first frame, and the lock of its landing has timed out.
C38_Witness ==
    /\ isLanding
    /\ jumpCooldown > Epoch + LandDt
    /\ landTimers = {now + LandingLock}

\* C39: the avatar starts sitting only on a tick that reports target-reached
\* for the navigation to the entry point of the chair whose request is
\* pending; a navigation to that entry point is started only by a chair
\* interaction; a click on the floor drops the pending request; and a
\* navigation that runs while a request is pending is the one to that chair.
\* So after a floor click, or after a key has cancelled the navigation, no
\* target-reached seats the avatar before a new chair interaction.
C39_SitOnlyByOwnNavigation ==
    [][/\ (~isSitting /\ isSitting')
            => /\ IsTick
               /\ tickLog'.reached
               /\ pendingInteraction = <<[position |-> SeatSit, rotation |-> ChairRot]>>
               /\ currentNavTarget = <<SeatEntry>>
               /\ pendingInteraction' = Null
       /\ (currentNavTarget' = <<SeatEntry>> /\ currentNavTarget # <<SeatEntry>>)
            => HandleChairInteract(SeatEntry, SeatSit, ChairRot)
       /\ HandleFloorClick(SeatFloor) => pendingInteraction' = Null
       /\ (pendingInteraction' # Null /\ currentNavTarget' # Null)
            => currentNavTarget' = <<SeatEntry>>]_vars

\* A key has cancelled the navigation to the chair: the request is still
\* pending and no navigation runs.
C39_Witness ==
    /\ pendingInteraction # Null
    /\ currentNavTarget = Null
    /\ ~isSitting
    /\ tickLog.input.dir # 0

====
